---------------------------- MODULE Spec2Model ----------------------------
(***************************************************************************)
(* Model of the concurrency fragments of the notebook:                     *)
(*   - threadsafe_queue and the data_preparation / data_processing         *)
(*     threads (sync_operations.md)                                        *)
(*   - gui_thread / post_task_for_gui_thread and the promise fragment      *)
(*     (sync_operations.md)                                                *)
(*   - hierarchical_mutex (sharing_data.md)                                *)
(* Each part has its own next-state relation and specification; all share  *)
(* one initial state.                                                      *)
(***************************************************************************)
EXTENDS Integers, Sequences, FiniteSets, TLC

(* ------------------------------ bounds --------------------------------- *)
MaxItems == 2
NumProducers == 2
NumConsumers == 2

Producers == {<<"producer", i>> : i \in 1..NumProducers}
Consumers == {<<"consumer", i>> : i \in 1..NumConsumers}
QThreads == Producers \cup Consumers

NoThread == <<"none", 0>>
NoItem == 0

(* --------------------------- state ------------------------------------- *)
VARIABLES
    data_queue,     \* std::queue<T> data_queue: sequence of items, head first
    mut,            \* std::mutex mut: the owning thread or NoThread
    data_cond,      \* std::condition_variable data_cond: threads blocked in wait()
    qpc,            \* position of every queue thread inside its operation
    new_value,      \* producer local: the item being pushed
    notifyInLock,   \* producer local: TRUE in threadsafe_queue::push,
                    \* FALSE in data_preparation_thread (notify after unlock)
    waited,         \* history: "no" while this wait_and_pop call has not blocked,
                    \* "blocked" inside wait(), then what released it last,
                    \* "blocked_again" when the predicate was false after that
    nextItem,       \* number of items prepared so far
    returned,       \* history: items whose push has returned
    before,         \* history: <<a, b>> when the push of a returned before
                    \* the push of b was called
    pushLog,        \* history: items in the order they were appended
    popLog,         \* history: items in removal order
    popKinds        \* history: "try_pop" when a try_pop returned an item, and the
                    \* notifications that released a waiter which then got one

qvars == <<data_queue, mut, data_cond, qpc, new_value, notifyInLock,
           waited, nextItem, returned, before, pushLog, popLog, popKinds>>

(* gui_thread / post_task_for_gui_thread, futures and the promise fragment *)
MaxTasks == 2
NumClients == 1
NumWorkers == 1
NumAwaiters == 2
NumCompleters == 2
MaxPromiseValue == 2

Clients == {<<"client", i>> : i \in 1..NumClients}
Workers == {<<"gui_thread", i>> : i \in 1..NumWorkers}
Awaiters == {<<"awaiter", i>> : i \in 1..NumAwaiters}
Completers == {<<"completer", i>> : i \in 1..NumCompleters}

TaskIds == 1..MaxTasks
NoTask == 0
some_promise == 0                  \* the channel of extern std::promise some_promise
Chans == {some_promise} \cup TaskIds

\* what a task or calculate_value() can raise
TaskErrors == {"DivisionByZero", "logic_error"}

VARIABLES
    chan,           \* shared state of every promise / packaged_task: state, value, error
    apc,            \* awaiter position: "idle" or "waiting"
    achan,          \* awaiter local: the channel whose future it waits on
    waitResults,    \* history: <<channel, result>> of every wait that returned
    dropped,        \* history: channels whose completer was destroyed while pending
    tasks,          \* std::deque<std::packaged_task<void()>> tasks, head first
    m,              \* std::mutex m
    shutdown_msg,   \* what gui_shutdown_message_received() returns
    func,           \* the callable wrapped by each packaged_task
    cpc,            \* client position inside post_task_for_gui_thread
    ctask,          \* client local: std::packaged_task<void()> task
    wpc,            \* gui_thread position
    wtask,          \* gui_thread local: std::packaged_task<void()> task
    joinpc,         \* position of the caller that shuts the pool down and joins
    destroyed,      \* the deque tasks has been destroyed
    nextTask,       \* number of packaged_tasks created so far
    appendLog,      \* history: tasks in the order of their push_back
    takeLog,        \* history: tasks in the order of their pop_front
    execLog,        \* history: <<gui_thread, task>> in the order of invocation
    afterShutdown,  \* history: tasks whose post was called after the shutdown message
    queuedAtShutdown,   \* history: tasks pending when the shutdown message arrived
    inflightAtShutdown, \* history: tasks held by a gui_thread at that moment
    ranAfterStop,   \* history: tasks a gui_thread took after the shutdown message
    ppc,            \* completer position inside the try / catch fragment
    pval,           \* completer local: the value calculate_value() returned
    perr,           \* completer local: std::current_exception() in the handler
    setLog          \* history: every set_value / set_exception call with its outcome

(* std::async(some_task), f.wait_for(...), f.get() *)
MaxWaitFor == 2
\* the timeouts passed to wait_for, in milliseconds: none, and the 35 of the
\* fragment
Durations == {0, 35}

VARIABLES
    f_state,        \* shared state of std::future<int> f: state, value, error
    f_launch,       \* the launch policy std::async chose: "async" or "deferred"
    some_task,      \* the callable passed to std::async
    tw_pc,          \* position of the thread that owns f
    wf_d,           \* the timeout of the wait_for under way, or of the last one
    wf_expired,     \* the timeout of the wait_for under way has elapsed
    wf_status,      \* what the last wait_for returned
    wf_count,       \* number of wait_for calls so far
    got,            \* what f.get() returned
    timeouts        \* history: number of wait_for calls that returned timeout

timedvars == <<f_state, f_launch, some_task, tw_pc, wf_d, wf_expired, wf_status,
               wf_count, got, timeouts>>

(* reader_thread / writer_thread *)
NumReaders == 3
Readers == {<<"reader_thread", i>> : i \in 1..NumReaders}

VARIABLES
    data,           \* std::vector<int> data, as the writer has it
    data_ready,     \* std::atomic<bool> data_ready
    released,       \* the contents of data that the store to data_ready carries
    wr_pc,          \* position of writer_thread
    rd_pc,          \* position of each reader_thread
    rd_data,        \* the contents of data each reader_thread is certain to see
    answer,         \* what each reader_thread printed for data[0]
    sawTrue         \* history: a load of data_ready has returned true

pubvars == <<data, data_ready, released, wr_pc, rd_pc, rd_data, answer, sawTrue>>

(* write_x_then_y / read_y_then_x with fences *)
\* the two threads of the fence programs
FenceThreads == {"write_x_then_y", "read_y_then_x"}
\* the most iterations of the loop on y that are counted
MaxSpins == 3
Locations == {"x", "y"}

VARIABLES
    x_atomic,       \* which program runs: "atomic" (std::atomic<bool> x), "plain" (bool x)
    mem,            \* x and y: the writes made to each, in modification order
    z,              \* std::atomic<int> z
    main_pc,        \* position of main
    main_view,      \* the last write to each location that happens before main's next step
    fpc,            \* position of each thread
    tview,          \* per thread: the last write to each location that it is certain to see
    frel,           \* per thread: its view at its last release fence
    facq,           \* per thread: what its relaxed loads read, to be acquired by a fence
    x_read,         \* what read_y_then_x read from x
    spins,          \* history: number of loads of y that returned false
    assert_result   \* outcome of assert(z.load() != 0)

fencevars == <<x_atomic, mem, z, main_pc, main_view, fpc, tview, frel, facq,
               x_read, spins, assert_result>>

(* spinlock_mutex *)
NumSpinThreads == 3
SpinThreads == {<<"spinner", i>> : i \in 1..NumSpinThreads}

VARIABLES
    flag,           \* std::atomic_flag flag: set (TRUE) or clear (FALSE)
    spc,            \* position of each thread: "out", "lock" (inside lock()), "held"
    tas             \* what each thread's last test_and_set returned

spinvars == <<flag, spc, tas>>

(* threadsafe_stack *)
NumStackThreads == 2
MaxPush == 2
StackThreads == {<<"stack_user", i>> : i \in 1..NumStackThreads}
\* the values pushed are 1, 2, ... in the order of the calls; 0 is no value
NoValue == 0

VARIABLES
    stack_data,     \* std::stack<T> data, the top at the end
    stack_m,        \* std::mutex m: its owner
    stk_pc,         \* position of each thread
    stk_val,        \* per thread: new_value of push, or res / value of pop
    stk_res,        \* per thread: what its last call returned or threw
    pushCount,      \* number of push calls so far
    stackPushLog,        \* history: the values pushed, in the order they entered data
    stackPopLog          \* history: the values pop calls have returned, in order

stackvars == <<stack_data, stack_m, stk_pc, stk_val, stk_res, pushCount, stackPushLog, stackPopLog>>

(* swap(X&, X&) *)
NumSwapThreads == 2
MaxSwapCalls == 3
SwapThreads == {<<"swapper", i>> : i \in 1..NumSwapThreads}
\* the instances of X
XObjects == {"a", "b"}

VARIABLES
    some_detail,    \* X::some_detail of each instance
    x_m,            \* X::m of each instance: its owner
    swpc,           \* position of each thread
    lhs,            \* per thread: the argument lhs of its call
    rhs,            \* per thread: the argument rhs of its call
    lock_first,     \* per thread: the mutex std::lock waits for or took first
    lock_order,     \* per thread: "lock_guard" or "scoped_lock", the version called
    sw_locked,      \* history: the instances whose m the call has locked so far
    swap_calls      \* number of calls of swap so far

swapvars == <<some_detail, x_m, swpc, lhs, rhs, lock_first, lock_order, sw_locked,
              swap_calls>>

(* hierarchical_mutex *)
NumHThreads == 2
MaxLockCalls == 3

HThreads == {<<"thread", i>> : i \in 1..NumHThreads}
HMutexes == {"high_level_mutex", "low_level_mutex", "other_mutex", "same_level_mutex"}
\* ULONG_MAX: only compared, never computed with; the largest 32-bit
\* integer stands for it
ULONG_MAX == 2147483647

\* hierarchical_mutex high_level_mutex(10000), low_level_mutex(5000),
\* other_mutex(6000); one more instance is given the level of low_level_mutex
hierarchy_value ==
    [mx \in HMutexes |->
        CASE mx = "high_level_mutex" -> 10000
          [] mx = "low_level_mutex" -> 5000
          [] mx = "other_mutex" -> 6000
          [] mx = "same_level_mutex" -> 5000]

VARIABLES
    internal_mutex,                 \* std::mutex internal_mutex of each instance: its owner
    previous_hierarchy_value,       \* member of each instance
    this_thread_hierarchy_value,    \* static thread_local member
    hpc,            \* thread position: "idle", or "locking" inside internal_mutex.lock()
    hmx,            \* thread local: the instance whose lock() is under way
    held,           \* history: the instances a thread owns, in acquisition order
    hlog,           \* history: the last call made, its thread and its outcome
    hcalls          \* number of acquisitions started so far

hvars == <<internal_mutex, previous_hierarchy_value, this_thread_hierarchy_value,
           hpc, hmx, held, hlog, hcalls>>

chanvars == <<chan, apc, achan, waitResults, dropped>>
poolvars == <<tasks, m, shutdown_msg, func, cpc, ctask, wpc, wtask, joinpc,
              destroyed, nextTask, appendLog, takeLog, execLog, afterShutdown,
              queuedAtShutdown, inflightAtShutdown, ranAfterStop>>
promvars == <<ppc, pval, perr, setLog>>

vars == <<qvars, chanvars, poolvars, promvars, hvars, timedvars, pubvars, fencevars, spinvars, stackvars, swapvars>>

otherThanQueue == <<chanvars, poolvars, promvars, hvars, timedvars, pubvars, fencevars, spinvars, stackvars, swapvars>>
otherThanPool == <<qvars, promvars, hvars, timedvars, pubvars, fencevars, spinvars, stackvars, swapvars>>
otherThanPromise == <<qvars, poolvars, hvars, timedvars, pubvars, fencevars, spinvars, stackvars, swapvars>>
otherThanTimed == <<qvars, chanvars, poolvars, promvars, hvars, pubvars, fencevars, spinvars, stackvars, swapvars>>
otherThanPublish == <<qvars, chanvars, poolvars, promvars, hvars, timedvars, fencevars, spinvars, stackvars, swapvars>>
otherThanHierarchy == <<qvars, chanvars, poolvars, promvars, timedvars, pubvars, fencevars, spinvars, stackvars, swapvars>>
otherThanFence == <<qvars, chanvars, poolvars, promvars, hvars, timedvars, pubvars, spinvars, stackvars, swapvars>>
otherThanSpin == <<qvars, chanvars, poolvars, promvars, hvars, timedvars, pubvars, fencevars, stackvars, swapvars>>
otherThanStack == <<qvars, chanvars, poolvars, promvars, hvars, timedvars, pubvars, fencevars, spinvars, swapvars>>
otherThanSwap == <<qvars, chanvars, poolvars, promvars, hvars, timedvars, pubvars, fencevars, spinvars, stackvars>>


Items == 1..MaxItems

InitQ ==
    /\ data_queue = <<>>
    /\ mut = NoThread
    /\ data_cond = {}
    /\ qpc = [t \in QThreads |-> "idle"]
    /\ new_value = [p \in Producers |-> NoItem]
    /\ notifyInLock = [p \in Producers |-> TRUE]
    /\ waited = [c \in Consumers |-> "no"]
    /\ nextItem = 0
    /\ returned = {}
    /\ before = {}
    /\ pushLog = <<>>
    /\ popLog = <<>>
    /\ popKinds = {}

(* ------------------- std::mutex / std::condition_variable -------------- *)
\* std::mutex::lock: enabled only while the mutex is free
MutexFree == mut = NoThread

\* a notification that releases every blocked thread
NotifyAll(ws) == {{}}

\* a notify_one() that releases nobody
NotifyNone(ws) == {ws}

\* data_cond.notify_one(): the waiting sets that can result; one of the
\* blocked threads is released, or nothing happens when none is blocked
NotifyOne(ws) == IF ws = {} THEN {ws} ELSE {ws \ {w} : w \in ws}

\* the positions after a notification: a released thread has to re-lock mut
Woken(ws, ws2, pcs) ==
    [t \in QThreads |-> IF t \in ws /\ t \notin ws2 THEN "wp_relock" ELSE pcs[t]]

\* history of a notification: what released the thread
ReleasedBy(ws, ws2, kind) ==
    [c \in Consumers |-> IF c \in ws /\ c \notin ws2 THEN kind ELSE waited[c]]

(* ------------------------------ producers ------------------------------ *)
\* call of threadsafe_queue::push(new_value) (inLock) or one iteration of
\* data_preparation_thread (not inLock) with a freshly prepared item
PushCall(p, inLock) ==
    /\ qpc[p] = "idle"
    /\ nextItem < MaxItems
    /\ nextItem' = nextItem + 1
    /\ new_value' = [new_value EXCEPT ![p] = nextItem + 1]
    /\ notifyInLock' = [notifyInLock EXCEPT ![p] = inLock]
    /\ before' = before \cup {<<a, nextItem + 1>> : a \in returned}
    /\ qpc' = [qpc EXCEPT ![p] = "push_lock"]
    /\ UNCHANGED <<data_queue, mut, data_cond, waited, returned,
                   pushLog, popLog>>
    /\ UNCHANGED <<popKinds, otherThanQueue>>

\* std::lock_guard<std::mutex> lk(mut)
PushLock(p) ==
    /\ qpc[p] = "push_lock"
    /\ MutexFree
    /\ mut' = p
    /\ qpc' = [qpc EXCEPT ![p] = "push_body"]
    /\ UNCHANGED <<data_queue, data_cond, new_value, notifyInLock,
                   waited, nextItem, returned, before, pushLog, popLog>>
    /\ UNCHANGED <<popKinds, otherThanQueue>>

\* a push that inserts at the head
QueuePushFront(q, v) == <<v>> \o q

\* a push that drops the item when the queue holds MaxItems - 1 items
QueuePushIfRoom(q, v) == IF Len(q) < MaxItems - 1 THEN Append(q, v) ELSE q

\* data_queue.push(new_value)
QueuePush(q, v) == Append(q, v)

\* threadsafe_queue::push under the lock: append, notify_one, and the
\* lock_guard goes out of scope (push returns)
PushBody(p) ==
    /\ qpc[p] = "push_body"
    /\ notifyInLock[p]
    /\ data_queue' = QueuePush(data_queue, new_value[p])
    /\ pushLog' = Append(pushLog, new_value[p])
    /\ data_cond' \in NotifyOne(data_cond)
    /\ mut' = NoThread
    /\ qpc' = [Woken(data_cond, data_cond', qpc) EXCEPT ![p] = "idle"]
    /\ returned' = returned \cup {new_value[p]}
    /\ new_value' = [new_value EXCEPT ![p] = NoItem]
    /\ waited' = ReleasedBy(data_cond, data_cond', "in_lock")
    /\ UNCHANGED <<notifyInLock, nextItem, before, popLog>>
    /\ UNCHANGED <<popKinds, otherThanQueue>>

\* data_preparation_thread under the lock: append, and the inner scope ends
PrepBody(p) ==
    /\ qpc[p] = "push_body"
    /\ ~notifyInLock[p]
    /\ data_queue' = QueuePush(data_queue, new_value[p])
    /\ pushLog' = Append(pushLog, new_value[p])
    /\ mut' = NoThread
    /\ qpc' = [qpc EXCEPT ![p] = "prep_notify"]
    /\ UNCHANGED <<data_cond, new_value, notifyInLock, waited, nextItem,
                   returned, before, popLog>>
    /\ UNCHANGED <<popKinds, otherThanQueue>>

\* data_preparation_thread: data_cond.notify_one() after the unlock
PrepNotify(p) ==
    /\ qpc[p] = "prep_notify"
    /\ data_cond' \in NotifyOne(data_cond)
    /\ qpc' = [Woken(data_cond, data_cond', qpc) EXCEPT ![p] = "idle"]
    /\ returned' = returned \cup {new_value[p]}
    /\ new_value' = [new_value EXCEPT ![p] = NoItem]
    /\ notifyInLock' = [notifyInLock EXCEPT ![p] = TRUE]
    /\ waited' = ReleasedBy(data_cond, data_cond', "after_unlock")
    /\ UNCHANGED <<data_queue, mut, nextItem, before, pushLog, popLog>>
    /\ UNCHANGED <<popKinds, otherThanQueue>>

(* ------------------------------ consumers ------------------------------ *)
\* call of wait_and_pop(value): std::unique_lock<std::mutex> lk(mut)
WaitAndPopLock(c) ==
    /\ qpc[c] = "idle"
    /\ MutexFree
    /\ mut' = c
    /\ qpc' = [qpc EXCEPT ![c] = "wp_check"]
    /\ UNCHANGED <<data_queue, data_cond, new_value, notifyInLock,
                   waited, nextItem, returned, before, pushLog, popLog>>
    /\ UNCHANGED <<popKinds, otherThanQueue>>

\* a wait() that returns on any wake, without a predicate
NoPredicate(q) == TRUE

\* the predicate of data_cond.wait(lk, [this]{ return !data_queue.empty(); })
WaitPredicate(q) == q # <<>>

\* value = data_queue.front(); front() of an empty std::queue is undefined,
\* the value read is then arbitrary
QueueFront(q) == IF q = <<>> THEN Items ELSE {Head(q)}

\* a pop that leaves the element in place
QueuePopNone(q) == q

\* data_queue.pop()
QueuePop(q) == IF q = <<>> THEN q ELSE Tail(q)

\* the notifications that released a waiter and are kept in the history
NotifyKinds == {"in_lock", "after_unlock"}

\* data_cond.wait(lk, pred) with the lock held: the predicate is tested; when
\* it is false the lock is released and the thread blocks, atomically; when
\* it is true wait() returns and, still under the lock, value =
\* data_queue.front(); data_queue.pop(); the unique_lock goes out of scope
\* and wait_and_pop returns
WaitAndPopCheck(c) ==
    /\ qpc[c] = "wp_check"
    /\ IF WaitPredicate(data_queue)
          THEN /\ \E v \in QueueFront(data_queue) : popLog' = Append(popLog, v)
               /\ data_queue' = QueuePop(data_queue)
               /\ popKinds' = popKinds \cup ({waited[c]} \cap NotifyKinds)
               /\ mut' = NoThread
               /\ qpc' = [qpc EXCEPT ![c] = "idle"]
               /\ waited' = [waited EXCEPT ![c] = "no"]
               /\ UNCHANGED data_cond
          ELSE /\ mut' = NoThread
               /\ data_cond' = data_cond \cup {c}
               /\ waited' = [waited EXCEPT
                                ![c] = IF @ = "no" THEN "blocked" ELSE "blocked_again"]
               /\ qpc' = [qpc EXCEPT ![c] = "wp_wait"]
               /\ UNCHANGED <<data_queue, popLog, popKinds>>
    /\ UNCHANGED <<new_value, notifyInLock, nextItem, returned, before, pushLog>>
    /\ UNCHANGED otherThanQueue

\* a spurious wake of a thread blocked in data_cond.wait()
SpuriousWake(c) ==
    /\ qpc[c] = "wp_wait"
    /\ c \in data_cond
    /\ data_cond' = data_cond \ {c}
    /\ qpc' = [qpc EXCEPT ![c] = "wp_relock"]
    /\ waited' = [waited EXCEPT ![c] = "spurious"]
    /\ UNCHANGED <<data_queue, mut, new_value, notifyInLock,
                   nextItem, returned, before, pushLog, popLog>>
    /\ UNCHANGED <<popKinds, otherThanQueue>>

\* inside wait(): the released thread locks mut again before it tests the
\* predicate
WaitAndPopRelock(c) ==
    /\ qpc[c] = "wp_relock"
    /\ MutexFree
    /\ mut' = c
    /\ qpc' = [qpc EXCEPT ![c] = "wp_check"]
    /\ UNCHANGED <<data_queue, data_cond, new_value, notifyInLock,
                   waited, nextItem, returned, before, pushLog, popLog>>
    /\ UNCHANGED <<popKinds, otherThanQueue>>

\* call of try_pop(value): std::lock_guard<std::mutex> lk(mut)
TryPopLock(c) ==
    /\ qpc[c] = "idle"
    /\ MutexFree
    /\ mut' = c
    /\ qpc' = [qpc EXCEPT ![c] = "tp_check"]
    /\ UNCHANGED <<data_queue, data_cond, new_value, notifyInLock,
                   waited, nextItem, returned, before, pushLog, popLog>>
    /\ UNCHANGED <<popKinds, otherThanQueue>>

\* try_pop under the lock: if(data_queue.empty()) return false; value =
\* data_queue.front(); data_queue.pop(); return true
TryPopCheck(c) ==
    /\ qpc[c] = "tp_check"
    /\ IF data_queue = <<>>
          THEN UNCHANGED <<data_queue, popLog, popKinds>>
          ELSE /\ \E v \in QueueFront(data_queue) : popLog' = Append(popLog, v)
               /\ data_queue' = QueuePop(data_queue)
               /\ popKinds' = popKinds \cup {"try_pop"}
    /\ mut' = NoThread
    /\ qpc' = [qpc EXCEPT ![c] = "idle"]
    /\ UNCHANGED <<data_cond, new_value, notifyInLock, waited, nextItem,
                   returned, before, pushLog>>
    /\ UNCHANGED otherThanQueue

ProducerStep(p) ==
    \/ \E inLock \in BOOLEAN : PushCall(p, inLock)
    \/ PushLock(p)
    \/ PushBody(p)
    \/ PrepBody(p)
    \/ PrepNotify(p)

\* the steps of a consumer inside wait_and_pop that only the scheduler
\* can delay
WaitAndPopRun(c) ==
    \/ WaitAndPopRelock(c)
    \/ WaitAndPopCheck(c)

TryPopRun(c) == TryPopCheck(c)

ConsumerStep(c) ==
    \/ WaitAndPopLock(c)
    \/ TryPopLock(c)
    \/ SpuriousWake(c)
    \/ WaitAndPopRun(c)
    \/ TryPopRun(c)

NextQ ==
    \/ \E p \in Producers : ProducerStep(p)
    \/ \E c \in Consumers : ConsumerStep(c)


(* ------------------------ promise / future state ----------------------- *)
NoChan == [state |-> "None", val |-> 0, err |-> "none"]
PendingChan == [state |-> "Pending", val |-> 0, err |-> "none"]
ReadyChan(v) == [state |-> "Ready", val |-> v, err |-> "none"]
FailedChan(e) == [state |-> "Failed", val |-> 0, err |-> e]

NoFunc == [throws |-> FALSE, val |-> 0, err |-> "none"]
\* the callables a client can post as task t: one that returns (the task's
\* own number stands for what it produces) and one per error it can raise
Funcs(t) == {[throws |-> FALSE, val |-> t, err |-> "none"]}
            \cup {[throws |-> TRUE, val |-> 0, err |-> e] : e \in TaskErrors}

InitChan ==
    /\ chan = [ch \in Chans |-> IF ch = some_promise THEN PendingChan ELSE NoChan]
    /\ apc = [a \in Awaiters |-> "idle"]
    /\ achan = [a \in Awaiters |-> some_promise]
    /\ waitResults = {}
    /\ dropped = {}

InitPool ==
    /\ tasks = <<>>
    /\ m = NoThread
    /\ shutdown_msg = FALSE
    /\ func = [t \in TaskIds |-> NoFunc]
    /\ cpc = [c \in Clients |-> "idle"]
    /\ ctask = [c \in Clients |-> NoTask]
    /\ wpc = [w \in Workers |-> "loop_test"]
    /\ wtask = [w \in Workers |-> NoTask]
    /\ joinpc = "idle"
    /\ destroyed = FALSE
    /\ nextTask = 0
    /\ appendLog = <<>>
    /\ takeLog = <<>>
    /\ execLog = <<>>
    /\ afterShutdown = {}
    /\ queuedAtShutdown = {}
    /\ inflightAtShutdown = {}
    /\ ranAfterStop = {}

InitPromise ==
    /\ ppc = [p \in Completers |-> "idle"]
    /\ pval = [p \in Completers |-> 0]
    /\ perr = [p \in Completers |-> "none"]
    /\ setLog = {}

\* a set_value that stores unconditionally
set_value_overwrite(ch, v) == [ok |-> TRUE, chan |-> ReadyChan(v)]

\* promise::set_value(v): stores the value when nothing is stored yet,
\* otherwise throws (ok = FALSE) and leaves the stored result alone
set_value(ch, v) ==
    IF ch.state = "Pending" THEN [ok |-> TRUE, chan |-> ReadyChan(v)]
                            ELSE [ok |-> FALSE, chan |-> ch]

\* a set_exception that stores unconditionally
set_exception_overwrite(ch, e) == [ok |-> TRUE, chan |-> FailedChan(e)]

\* promise::set_exception(e): the same for an error
set_exception(ch, e) ==
    IF ch.state = "Pending" THEN [ok |-> TRUE, chan |-> FailedChan(e)]
                            ELSE [ok |-> FALSE, chan |-> ch]

\* a destructor that leaves the shared state pending
abandon_silently(ch) == ch

\* the promise / packaged_task is destroyed: a state that is still pending
\* is completed with the error Abandoned
abandon(ch) == IF ch.state = "Pending" THEN FailedChan("Abandoned") ELSE ch

\* an invocation that lets the exception of the callable escape
InvokeUncaught(ch, f) ==
    IF f.throws THEN [escaped |-> TRUE, chan |-> ch]
                ELSE [escaped |-> FALSE, chan |-> set_value(ch, f.val).chan]

\* packaged_task::operator(): calls the callable and makes the future ready
\* with its result; an exception of the callable is stored, it does not
\* escape the call
Invoke(ch, f) ==
    IF f.throws THEN [escaped |-> FALSE, chan |-> set_exception(ch, f.err).chan]
                ELSE [escaped |-> FALSE, chan |-> set_value(ch, f.val).chan]

\* future::get(): the stored value, or the stored error re-thrown
FutureGet(ch) == [val |-> ch.val, err |-> ch.err]

(* ------------------------------ awaiters ------------------------------- *)
\* call of future::get() / wait() on the future of channel ch; the future of
\* a posted task is in the hands of a caller once the post has returned it
AwaitCall(a, ch) ==
    /\ apc[a] = "idle"
    /\ chan[ch].state # "None"
    /\ ch \in TaskIds => \E i \in 1..Len(appendLog) : appendLog[i] = ch
    /\ apc' = [apc EXCEPT ![a] = "waiting"]
    /\ achan' = [achan EXCEPT ![a] = ch]
    /\ UNCHANGED <<chan, waitResults, dropped>>
    /\ UNCHANGED <<qvars, poolvars, promvars, hvars, timedvars, pubvars, fencevars, spinvars, stackvars, swapvars>>

\* the wait returns once the state has left Pending
AwaitReturn(a) ==
    /\ apc[a] = "waiting"
    /\ chan[achan[a]].state # "Pending"
    /\ waitResults' = waitResults \cup {<<achan[a], FutureGet(chan[achan[a]])>>}
    /\ apc' = [apc EXCEPT ![a] = "idle"]
    /\ achan' = [achan EXCEPT ![a] = some_promise]
    /\ UNCHANGED <<chan, dropped>>
    /\ UNCHANGED <<qvars, poolvars, promvars, hvars, timedvars, pubvars, fencevars, spinvars, stackvars, swapvars>>

(* ------------------------ post_task_for_gui_thread --------------------- *)
\* std::packaged_task<void()> task(f); std::future<void> res = task.get_future();
PostCall(c, f) ==
    /\ cpc[c] = "idle"
    /\ ~destroyed
    /\ nextTask < MaxTasks
    /\ nextTask' = nextTask + 1
    /\ ctask' = [ctask EXCEPT ![c] = nextTask + 1]
    /\ func' = [func EXCEPT ![nextTask + 1] = f]
    /\ chan' = [chan EXCEPT ![nextTask + 1] = PendingChan]
    /\ afterShutdown' = IF shutdown_msg THEN afterShutdown \cup {nextTask + 1}
                                        ELSE afterShutdown
    /\ cpc' = [cpc EXCEPT ![c] = "post_lock"]
    /\ UNCHANGED <<tasks, m, shutdown_msg, wpc, wtask, joinpc, destroyed,
                   appendLog, takeLog, execLog, queuedAtShutdown, inflightAtShutdown,
                   ranAfterStop>>
    /\ UNCHANGED <<apc, achan, waitResults, dropped>>
    /\ UNCHANGED otherThanPool

\* std::lock_guard<std::mutex> lk(m);
PostLock(c) ==
    /\ cpc[c] = "post_lock"
    /\ m = NoThread
    /\ m' = c
    /\ cpc' = [cpc EXCEPT ![c] = "post_push"]
    /\ UNCHANGED <<tasks, shutdown_msg, func, ctask, wpc, wtask, joinpc,
                   destroyed, nextTask, appendLog, takeLog, execLog, afterShutdown,
                   queuedAtShutdown, inflightAtShutdown, ranAfterStop>>
    /\ UNCHANGED chanvars
    /\ UNCHANGED otherThanPool

\* a push_back that drops the task once the shutdown message has arrived
push_back_unless_shutdown(q, t) == IF shutdown_msg THEN q ELSE Append(q, t)

\* a push that loses the task
push_back_lost(q, t) == q

\* a push that puts the task at the head
push_front(q, t) == <<t>> \o q

\* tasks.push_back(std::move(task))
push_back(q, t) == Append(q, t)

\* tasks.push_back(std::move(task)); return res;
PostPush(c) ==
    /\ cpc[c] = "post_push"
    /\ tasks' = push_back(tasks, ctask[c])
    /\ appendLog' = Append(appendLog, ctask[c])
    /\ m' = NoThread
    /\ ctask' = [ctask EXCEPT ![c] = NoTask]
    /\ cpc' = [cpc EXCEPT ![c] = "idle"]
    /\ UNCHANGED <<shutdown_msg, func, wpc, wtask, joinpc, destroyed, nextTask,
                   takeLog, execLog, afterShutdown, queuedAtShutdown, inflightAtShutdown,
                   ranAfterStop>>
    /\ UNCHANGED chanvars
    /\ UNCHANGED otherThanPool

(* ------------------------------ gui_thread ----------------------------- *)
\* bool gui_shutdown_message_received()
gui_shutdown_message_received == shutdown_msg

\* a loop condition that also keeps the loop going while tasks are queued
loop_until_drained(q) == ~(gui_shutdown_message_received /\ q = <<>>)

\* the loop condition: while(!gui_shutdown_message_received())
loop_condition(q) == ~gui_shutdown_message_received

\* while(...) { get_and_process_gui_message(); ...
LoopTest(w) ==
    /\ wpc[w] = "loop_test"
    /\ wpc' = [wpc EXCEPT ![w] = IF loop_condition(tasks) THEN "lock" ELSE "done"]
    /\ UNCHANGED <<tasks, m, shutdown_msg, func, cpc, ctask, wtask, joinpc,
                   destroyed, nextTask, appendLog, takeLog, execLog, afterShutdown,
                   queuedAtShutdown, inflightAtShutdown, ranAfterStop>>
    /\ UNCHANGED chanvars
    /\ UNCHANGED otherThanPool

\* std::lock_guard<std::mutex> lk(m);
WorkerLock(w) ==
    /\ wpc[w] = "lock"
    /\ m = NoThread
    /\ m' = w
    /\ wpc' = [wpc EXCEPT ![w] = "take"]
    /\ UNCHANGED <<tasks, shutdown_msg, func, cpc, ctask, wtask, joinpc,
                   destroyed, nextTask, appendLog, takeLog, execLog, afterShutdown,
                   queuedAtShutdown, inflightAtShutdown, ranAfterStop>>
    /\ UNCHANGED chanvars
    /\ UNCHANGED otherThanPool

\* a pop_front that leaves the task at the head of the deque
pop_front_keep(q) == q

\* tasks.pop_front()
pop_front(q) == Tail(q)

\* if(tasks.empty()) continue; task = std::move(tasks.front());
\* tasks.pop_front(); and the lock_guard goes out of scope
WorkerTake(w) ==
    /\ wpc[w] = "take"
    /\ m' = NoThread
    /\ IF tasks = <<>>
          THEN /\ wpc' = [wpc EXCEPT ![w] = "loop_test"]
               /\ UNCHANGED <<tasks, wtask, takeLog, ranAfterStop>>
          ELSE /\ wtask' = [wtask EXCEPT ![w] = Head(tasks)]
               /\ tasks' = pop_front(tasks)
               /\ takeLog' = Append(takeLog, Head(tasks))
               /\ ranAfterStop' = IF shutdown_msg
                                     THEN ranAfterStop \cup {<<w, Head(tasks)>>}
                                     ELSE ranAfterStop
               /\ wpc' = [wpc EXCEPT ![w] = "run"]
    /\ UNCHANGED <<shutdown_msg, func, cpc, ctask, joinpc, destroyed, nextTask,
                   appendLog, execLog, afterShutdown, queuedAtShutdown,
                   inflightAtShutdown>>
    /\ UNCHANGED chanvars
    /\ UNCHANGED otherThanPool

\* task(); and the local task is destroyed at the end of the iteration
RunTask(w) ==
    /\ wpc[w] = "run"
    /\ LET r == Invoke(chan[wtask[w]], func[wtask[w]])
       IN /\ chan' = [chan EXCEPT ![wtask[w]] = abandon(r.chan)]
          /\ wpc' = [wpc EXCEPT ![w] = IF r.escaped THEN "terminated"
                                                    ELSE "loop_test"]
    /\ execLog' = Append(execLog, <<w, wtask[w]>>)
    /\ wtask' = [wtask EXCEPT ![w] = NoTask]
    /\ UNCHANGED <<tasks, m, shutdown_msg, func, cpc, ctask, joinpc, destroyed,
                   nextTask, appendLog, takeLog, afterShutdown, queuedAtShutdown,
                   inflightAtShutdown, ranAfterStop>>
    /\ UNCHANGED <<apc, achan, waitResults, dropped>>
    /\ UNCHANGED otherThanPool

(* ------------------------- shutdown and join --------------------------- *)
\* the shutdown message arrives: the caller asks the pool to stop and
\* starts to join the gui threads
ShutdownMessage ==
    /\ joinpc = "idle"
    /\ shutdown_msg' = TRUE
    /\ joinpc' = "joining"
    /\ queuedAtShutdown' = {tasks[i] : i \in 1..Len(tasks)}
    /\ inflightAtShutdown' = {wtask[w] : w \in Workers} \ {NoTask}
    /\ UNCHANGED <<tasks, m, func, cpc, ctask, wpc, wtask, destroyed, nextTask,
                   appendLog, takeLog, execLog, afterShutdown, ranAfterStop>>
    /\ UNCHANGED chanvars
    /\ UNCHANGED otherThanPool

\* join() returns when every gui_thread has left its loop
JoinReturn ==
    /\ joinpc = "joining"
    /\ \A w \in Workers : wpc[w] \in {"done", "terminated"}
    /\ joinpc' = "returned"
    /\ UNCHANGED <<tasks, m, shutdown_msg, func, cpc, ctask, wpc, wtask,
                   destroyed, nextTask, appendLog, takeLog, execLog, afterShutdown,
                   queuedAtShutdown, inflightAtShutdown, ranAfterStop>>
    /\ UNCHANGED chanvars
    /\ UNCHANGED otherThanPool

\* the deque tasks is destroyed after the pool has stopped: every
\* packaged_task still in it is destroyed without having been invoked
TasksDestroyed ==
    /\ joinpc = "returned"
    /\ ~destroyed
    /\ \A c \in Clients : cpc[c] = "idle"
    /\ destroyed' = TRUE
    /\ tasks' = <<>>
    /\ chan' = [ch \in Chans |->
                  IF \E i \in 1..Len(tasks) : tasks[i] = ch THEN abandon(chan[ch])
                                                            ELSE chan[ch]]
    /\ dropped' = dropped \cup {tasks[i] : i \in 1..Len(tasks)}
    /\ UNCHANGED <<m, shutdown_msg, func, cpc, ctask, wpc, wtask, joinpc,
                   nextTask, appendLog, takeLog, execLog, afterShutdown,
                   queuedAtShutdown, inflightAtShutdown, ranAfterStop>>
    /\ UNCHANGED <<apc, achan, waitResults>>
    /\ UNCHANGED otherThanPool

ClientStep(c) ==
    \/ \E f \in Funcs(nextTask + 1) : PostCall(c, f)
    \/ PostLock(c)
    \/ PostPush(c)

\* the steps of a client inside post_task_for_gui_thread
ClientRun(c) == PostLock(c) \/ PostPush(c)

WorkerStep(w) ==
    \/ LoopTest(w)
    \/ WorkerLock(w)
    \/ WorkerTake(w)
    \/ RunTask(w)

AwaiterStep(a, chs) ==
    \/ \E ch \in chs : AwaitCall(a, ch)
    \/ AwaitReturn(a)

NextPool ==
    \/ \E c \in Clients : ClientStep(c)
    \/ \E w \in Workers : WorkerStep(w)
    \/ \E a \in Awaiters : AwaiterStep(a, TaskIds)
    \/ ShutdownMessage
    \/ JoinReturn
    \/ TasksDestroyed


(* ------------------------- the promise fragment ------------------------ *)
\* try { some_promise.set_value(calculate_value()); }: calculate_value()
\* returns a value or throws
Calculate(p) ==
    /\ ppc[p] = "idle"
    /\ \/ \E v \in 1..MaxPromiseValue :
            /\ pval' = [pval EXCEPT ![p] = v]
            /\ ppc' = [ppc EXCEPT ![p] = "set_value"]
            /\ UNCHANGED perr
       \/ \E e \in TaskErrors :
            /\ perr' = [perr EXCEPT ![p] = e]
            /\ ppc' = [ppc EXCEPT ![p] = "catch"]
            /\ UNCHANGED pval
    /\ UNCHANGED setLog
    /\ UNCHANGED chanvars
    /\ UNCHANGED otherThanPromise

\* some_promise.set_value(...); when it throws, control enters catch(...)
SetValue(p) ==
    /\ ppc[p] = "set_value"
    /\ LET r == set_value(chan[some_promise], pval[p])
       IN /\ chan' = [chan EXCEPT ![some_promise] = r.chan]
          /\ setLog' = setLog \cup {[op |-> "set_value", before |-> chan[some_promise],
                                     after |-> r.chan, ok |-> r.ok]}
          /\ IF r.ok
                THEN /\ ppc' = [ppc EXCEPT ![p] = "idle"]
                     /\ UNCHANGED perr
                ELSE /\ ppc' = [ppc EXCEPT ![p] = "catch"]
                     /\ perr' = [perr EXCEPT ![p] = "AlreadyCompleted"]
    /\ pval' = [pval EXCEPT ![p] = 0]
    /\ UNCHANGED <<apc, achan, waitResults, dropped>>
    /\ UNCHANGED otherThanPromise

\* catch(...) { some_promise.set_exception(std::current_exception()); }
SetException(p) ==
    /\ ppc[p] = "catch"
    /\ LET r == set_exception(chan[some_promise], perr[p])
       IN /\ chan' = [chan EXCEPT ![some_promise] = r.chan]
          /\ setLog' = setLog \cup {[op |-> "set_exception", before |-> chan[some_promise],
                                     after |-> r.chan, ok |-> r.ok]}
    /\ ppc' = [ppc EXCEPT ![p] = "idle"]
    /\ perr' = [perr EXCEPT ![p] = "none"]
    /\ UNCHANGED pval
    /\ UNCHANGED <<apc, achan, waitResults, dropped>>
    /\ UNCHANGED otherThanPromise

CompleterStep(p) ==
    \/ Calculate(p)
    \/ SetValue(p)
    \/ SetException(p)

NextPromise ==
    \/ \E p \in Completers : CompleterStep(p)
    \/ \E a \in Awaiters : AwaiterStep(a, {some_promise})

(* ------------------- std::async, wait_for and get ---------------------- *)
NoResult == [val |-> 0, err |-> "unset"]

InitTimed ==
    /\ f_state = NoChan
    /\ f_launch = "none"
    /\ some_task = NoFunc
    /\ tw_pc = "start"
    /\ wf_d = 0
    /\ wf_expired = FALSE
    /\ wf_status = "none"
    /\ wf_count = 0
    /\ got = NoResult
    /\ timeouts = 0

\* std::future<int> f = std::async(some_task); the implementation chooses
\* between a new thread and a call deferred to get()
AsyncCall(pol, fn) ==
    /\ tw_pc = "start"
    /\ f_state' = PendingChan
    /\ f_launch' = pol
    /\ some_task' = fn
    /\ tw_pc' = "idle"
    /\ UNCHANGED <<wf_d, wf_expired, wf_status, wf_count, got, timeouts>>
    /\ UNCHANGED otherThanTimed

\* the thread std::async started runs some_task and makes f ready with what
\* it returned or threw
SomeTaskRun ==
    /\ f_launch = "async"
    /\ f_state.state = "Pending"
    /\ f_state' = Invoke(f_state, some_task).chan
    /\ UNCHANGED <<f_launch, some_task, tw_pc, wf_d, wf_expired, wf_status,
                   wf_count, got, timeouts>>
    /\ UNCHANGED otherThanTimed

\* a wait_for that reports ready when its timeout has elapsed
wait_for_ready_on_expiry(st, pol, expired) ==
    IF pol = "deferred" THEN "deferred"
    ELSE IF st.state # "Pending" \/ expired THEN "ready"
    ELSE "blocked"

\* future::wait_for(d): what it returns, or "blocked" while it has to wait
wait_for(st, pol, expired) ==
    IF pol = "deferred" THEN "deferred"
    ELSE IF st.state # "Pending" THEN "ready"
    ELSE IF expired THEN "timeout"
    ELSE "blocked"

\* a timeout that has never elapsed at the call
elapsed_never(d) == FALSE

\* the timeout d has elapsed at the moment of the call
elapsed_at_call(d) == d = 0

\* f.wait_for(std::chrono::milliseconds(d)) is called
WaitForCall(d) ==
    /\ tw_pc = "idle"
    /\ wf_count < MaxWaitFor
    /\ wf_count' = wf_count + 1
    /\ tw_pc' = "wait_for"
    /\ wf_d' = d
    /\ wf_expired' = elapsed_at_call(d)
    /\ UNCHANGED <<f_state, f_launch, some_task, wf_status, got, timeouts>>
    /\ UNCHANGED otherThanTimed

\* the timeout of the wait_for under way elapses
WaitForExpire ==
    /\ tw_pc = "wait_for"
    /\ ~wf_expired
    /\ wf_expired' = TRUE
    /\ UNCHANGED <<f_state, f_launch, some_task, tw_pc, wf_d, wf_status,
                   wf_count, got, timeouts>>
    /\ UNCHANGED otherThanTimed

\* wait_for returns; if(... == std::future_status::ready) goes on to f.get()
WaitForReturn ==
    /\ tw_pc = "wait_for"
    /\ LET status == wait_for(f_state, f_launch, wf_expired)
       IN /\ status # "blocked"
          /\ wf_status' = status
          /\ tw_pc' = IF status = "ready" THEN "get" ELSE "idle"
          /\ timeouts' = IF status = "timeout" THEN timeouts + 1 ELSE timeouts
    /\ wf_expired' = FALSE
    /\ UNCHANGED <<f_state, f_launch, some_task, wf_d, wf_count, got>>
    /\ UNCHANGED otherThanTimed

\* f.get() is called: after wait_for returned ready, or later on
GetCall ==
    /\ tw_pc \in {"idle", "get"}
    /\ tw_pc' = "in_get"
    /\ UNCHANGED <<f_state, f_launch, some_task, wf_d, wf_expired, wf_status,
                   wf_count, got, timeouts>>
    /\ UNCHANGED otherThanTimed

\* get() on a deferred call runs some_task in the calling thread
DeferredRun ==
    /\ tw_pc = "in_get"
    /\ f_launch = "deferred"
    /\ f_state.state = "Pending"
    /\ f_state' = Invoke(f_state, some_task).chan
    /\ UNCHANGED <<f_launch, some_task, tw_pc, wf_d, wf_expired, wf_status,
                   wf_count, got, timeouts>>
    /\ UNCHANGED otherThanTimed

\* f.get() returns the stored value or rethrows the stored exception; f is
\* no longer valid
GetReturn ==
    /\ tw_pc = "in_get"
    /\ f_state.state # "Pending"
    /\ got' = FutureGet(f_state)
    /\ tw_pc' = "done"
    /\ UNCHANGED <<f_state, f_launch, some_task, wf_d, wf_expired, wf_status,
                   wf_count, timeouts>>
    /\ UNCHANGED otherThanTimed

NextTimed ==
    \/ \E pol \in {"async", "deferred"}, v \in 1..MaxPromiseValue :
          \E fn \in Funcs(v) : AsyncCall(pol, fn)
    \/ SomeTaskRun
    \/ \E d \in Durations : WaitForCall(d)
    \/ WaitForExpire
    \/ WaitForReturn
    \/ GetCall
    \/ DeferredRun
    \/ GetReturn

(* --------------------- reader_thread / writer_thread ------------------- *)
\* what reading data[0] can give when the push_back does not happen before
\* the read: the behaviour is undefined
NoAnswer == [printed |-> FALSE, crashed |-> FALSE, v |-> 0]
Printed(v) == [printed |-> TRUE, crashed |-> FALSE, v |-> v]
Undefined == {[printed |-> FALSE, crashed |-> TRUE, v |-> 0], Printed(0), Printed(42)}

InitPublish ==
    /\ data = <<>>
    /\ data_ready = FALSE
    /\ released = <<>>
    /\ wr_pc = "push_back"
    /\ rd_pc = [r \in Readers |-> "load"]
    /\ rd_data = [r \in Readers |-> <<>>]
    /\ answer = [r \in Readers |-> NoAnswer]
    /\ sawTrue = FALSE

\* data.push_back(42);
WriterPushBack ==
    /\ wr_pc = "push_back"
    /\ data' = Append(data, 42)
    /\ wr_pc' = "store"
    /\ UNCHANGED <<data_ready, released, rd_pc, rd_data, answer, sawTrue>>
    /\ UNCHANGED otherThanPublish

\* a store with memory_order_relaxed: it orders nothing before it
store_relaxed(d) == <<>>

\* data_ready = true, a store with memory_order_seq_cst: every write the
\* thread made before it happens before whatever a load that reads the
\* stored value is followed by
store_seq_cst(d) == d

\* data_ready = true;
WriterStore ==
    /\ wr_pc = "store"
    /\ data_ready' = TRUE
    /\ released' = store_seq_cst(data)
    /\ wr_pc' = "done"
    /\ UNCHANGED <<data, rd_pc, rd_data, answer, sawTrue>>
    /\ UNCHANGED otherThanPublish

\* the write to data reaches a reader without any synchronization: nothing
\* forbids it and nothing guarantees it
Propagate(r) ==
    /\ rd_data[r] # data
    /\ rd_data' = [rd_data EXCEPT ![r] = data]
    /\ UNCHANGED <<data, data_ready, released, wr_pc, rd_pc, answer, sawTrue>>
    /\ UNCHANGED otherThanPublish

\* a load that clears the flag it reads
load_and_reset(fl) == [value |-> fl, flag |-> FALSE]

\* data_ready.load(): the value read, and the flag after it
load(fl) == [value |-> fl, flag |-> fl]

\* while(!data_ready.load()): a load that reads true synchronizes with the
\* store and brings with it what the store carries
ReaderLoad(r) ==
    /\ rd_pc[r] = "load"
    /\ LET l == load(data_ready)
       IN /\ data_ready' = l.flag
          /\ IF l.value
                THEN /\ rd_pc' = [rd_pc EXCEPT ![r] = "read"]
                     /\ rd_data' = [rd_data EXCEPT
                                       ![r] = IF Len(released) > Len(@) THEN released ELSE @]
                     /\ sawTrue' = TRUE
                ELSE /\ rd_pc' = [rd_pc EXCEPT ![r] = "sleep"]
                     /\ UNCHANGED <<rd_data, sawTrue>>
    /\ UNCHANGED <<data, released, wr_pc, answer>>
    /\ UNCHANGED otherThanPublish

\* std::this_thread::sleep(std::chrono::milliseconds(1));
ReaderSleep(r) ==
    /\ rd_pc[r] = "sleep"
    /\ rd_pc' = [rd_pc EXCEPT ![r] = "load"]
    /\ UNCHANGED <<data, data_ready, released, wr_pc, rd_data, answer, sawTrue>>
    /\ UNCHANGED otherThanPublish

\* std::cout << "The answer=" << data[0] << "\n";
ReaderRead(r) ==
    /\ rd_pc[r] = "read"
    /\ \E a \in (IF rd_data[r] # <<>> THEN {Printed(rd_data[r][1])} ELSE Undefined) :
          answer' = [answer EXCEPT ![r] = a]
    /\ rd_pc' = [rd_pc EXCEPT ![r] = "done"]
    /\ UNCHANGED <<data, data_ready, released, wr_pc, rd_data, sawTrue>>
    /\ UNCHANGED otherThanPublish

ReaderStep(r) ==
    \/ ReaderLoad(r)
    \/ ReaderSleep(r)
    \/ ReaderRead(r)
    \/ Propagate(r)

NextPublish ==
    \/ WriterPushBack
    \/ WriterStore
    \/ \E r \in Readers : ReaderStep(r)

(* ----------------- write_x_then_y / read_y_then_x ------------------- *)
\* a view: for each location the position, in its modification order, of a
\* write; NoView sees only the static initialization
NoView == [l \in Locations |-> 1]
JoinView(v1, v2) == [l \in Locations |-> IF v1[l] >= v2[l] THEN v1[l] ELSE v2[l]]
Message(v, view) == [val |-> v, rel |-> view]

\* x, y and z have static storage duration: they are zero-initialized
InitFence ==
    /\ x_atomic = "unset"
    /\ mem = [l \in Locations |-> <<Message(FALSE, NoView)>>]
    /\ z = 0
    /\ main_pc = "x_false"
    /\ main_view = NoView
    /\ fpc = [t \in FenceThreads |-> "not_started"]
    /\ tview = [t \in FenceThreads |-> NoView]
    /\ frel = [t \in FenceThreads |-> NoView]
    /\ facq = [t \in FenceThreads |-> NoView]
    /\ x_read = "unread"
    /\ spins = 0
    /\ assert_result = "none"

\* the view of a thread that has just written position n of location l
Wrote(view, l, n) == [view EXCEPT ![l] = n]

\* x = false; in main, of the program with std::atomic<bool> x or of the
\* program with bool x
MainStoreX(prog) ==
    /\ main_pc = "x_false"
    /\ x_atomic' = prog
    /\ LET n == Len(mem["x"]) + 1
       IN /\ main_view' = Wrote(main_view, "x", n)
          /\ mem' = [mem EXCEPT !["x"] = Append(@, Message(FALSE,
                        IF prog = "atomic" THEN Wrote(main_view, "x", n) ELSE NoView))]
    /\ main_pc' = "y_false"
    /\ UNCHANGED <<z, fpc, tview, frel, facq, x_read, spins, assert_result>>
    /\ UNCHANGED otherThanFence

\* y = false;
MainStoreY ==
    /\ main_pc = "y_false"
    /\ LET n == Len(mem["y"]) + 1
       IN /\ main_view' = Wrote(main_view, "y", n)
          /\ mem' = [mem EXCEPT !["y"] = Append(@, Message(FALSE, Wrote(main_view, "y", n)))]
    /\ main_pc' = "z_zero"
    /\ UNCHANGED <<x_atomic, z, fpc, tview, frel, facq, x_read, spins, assert_result>>
    /\ UNCHANGED otherThanFence

\* z = 0;
MainStoreZ ==
    /\ main_pc = "z_zero"
    /\ z' = 0
    /\ main_pc' = "start_a"
    /\ UNCHANGED <<x_atomic, mem, main_view, fpc, tview, frel, facq, x_read, spins, assert_result>>
    /\ UNCHANGED otherThanFence

\* std::thread a(write_x_then_y); std::thread b(read_y_then_x); the
\* completion of the constructor synchronizes with the start of the thread
MainStart(t) ==
    /\ \/ main_pc = "start_a" /\ t = "write_x_then_y" /\ main_pc' = "start_b"
       \/ main_pc = "start_b" /\ t = "read_y_then_x" /\ main_pc' = "join_a"
    /\ fpc' = [fpc EXCEPT ![t] = IF t = "write_x_then_y" THEN "store_x" ELSE "load_y"]
    /\ tview' = [tview EXCEPT ![t] = main_view]
    /\ UNCHANGED <<x_atomic, mem, z, main_view, frel, facq, x_read, spins, assert_result>>
    /\ UNCHANGED otherThanFence

\* x.store(true, std::memory_order_relaxed); or x = true; a relaxed store
\* carries what the thread's last release fence saw
WriteX ==
    /\ fpc["write_x_then_y"] = "store_x"
    /\ LET t == "write_x_then_y"
           n == Len(mem["x"]) + 1
       IN /\ mem' = [mem EXCEPT !["x"] = Append(@, Message(TRUE,
                        IF x_atomic = "atomic" THEN Wrote(frel[t], "x", n) ELSE NoView))]
          /\ tview' = [tview EXCEPT ![t] = Wrote(@, "x", n)]
    /\ fpc' = [fpc EXCEPT !["write_x_then_y"] = "fence"]
    /\ UNCHANGED <<x_atomic, z, main_pc, main_view, frel, facq, x_read, spins, assert_result>>
    /\ UNCHANGED otherThanFence

\* a release fence that orders nothing
fence_release_none(cur, rel) == rel

\* std::atomic_thread_fence(std::memory_order_release): the stores that
\* follow carry everything the thread has seen or written so far
fence_release(cur, rel) == cur

WriteFence ==
    /\ fpc["write_x_then_y"] = "fence"
    /\ frel' = [frel EXCEPT !["write_x_then_y"] = fence_release(tview["write_x_then_y"], @)]
    /\ fpc' = [fpc EXCEPT !["write_x_then_y"] = "store_y"]
    /\ UNCHANGED <<x_atomic, mem, z, main_pc, main_view, tview, facq, x_read, spins, assert_result>>
    /\ UNCHANGED otherThanFence

\* y.store(true, std::memory_order_relaxed);
WriteY ==
    /\ fpc["write_x_then_y"] = "store_y"
    /\ LET t == "write_x_then_y"
           n == Len(mem["y"]) + 1
       IN /\ mem' = [mem EXCEPT !["y"] = Append(@, Message(TRUE, Wrote(frel[t], "y", n)))]
          /\ tview' = [tview EXCEPT ![t] = Wrote(@, "y", n)]
    /\ fpc' = [fpc EXCEPT !["write_x_then_y"] = "done"]
    /\ UNCHANGED <<x_atomic, z, main_pc, main_view, frel, facq, x_read, spins, assert_result>>
    /\ UNCHANGED otherThanFence

\* the writes to location l that a relaxed load by a thread with this view
\* can read: none older than what the thread is certain to see
Readable(l, view) == view[l]..Len(mem[l])

\* while (!y.load(std::memory_order_relaxed)); one load of the loop
ReadY ==
    /\ fpc["read_y_then_x"] = "load_y"
    /\ LET t == "read_y_then_x"
       IN \E n \in Readable("y", tview[t]) :
             /\ tview' = [tview EXCEPT ![t] = Wrote(@, "y", n)]
             /\ facq' = [facq EXCEPT ![t] = JoinView(@, mem["y"][n].rel)]
             /\ mem["y"][n].val \/ spins < MaxSpins
             /\ fpc' = [fpc EXCEPT ![t] = IF mem["y"][n].val THEN "fence" ELSE "load_y"]
             /\ spins' = IF mem["y"][n].val THEN spins ELSE spins + 1
    /\ UNCHANGED <<x_atomic, mem, z, main_pc, main_view, frel, x_read, assert_result>>
    /\ UNCHANGED otherThanFence

\* an acquire fence that orders nothing
fence_acquire_none(cur, acq) == cur

\* std::atomic_thread_fence(std::memory_order_acquire): what the stores
\* read by the loads before the fence carry is seen by everything after it
fence_acquire(cur, acq) == JoinView(cur, acq)

ReadFence ==
    /\ fpc["read_y_then_x"] = "fence"
    /\ tview' = [tview EXCEPT !["read_y_then_x"] = fence_acquire(@, facq["read_y_then_x"])]
    /\ fpc' = [fpc EXCEPT !["read_y_then_x"] = "load_x"]
    /\ UNCHANGED <<x_atomic, mem, z, main_pc, main_view, frel, facq, x_read, spins, assert_result>>
    /\ UNCHANGED otherThanFence

\* what a read of x gives: for the atomic x the value of any write it may
\* read; for the plain x the value of the last write if that write happens
\* before the read, and otherwise the read is a data race, whose behaviour is
\* undefined: either value, or anything else
XValues(view) ==
    IF x_atomic = "atomic"
       THEN {IF mem["x"][n].val THEN "true" ELSE "false" : n \in Readable("x", view)}
       ELSE IF view["x"] = Len(mem["x"])
               THEN {IF mem["x"][Len(mem["x"])].val THEN "true" ELSE "false"}
               ELSE {"true", "false", "undefined"}

\* if (x.load(std::memory_order_relaxed)) or if (x)
ReadX ==
    /\ fpc["read_y_then_x"] = "load_x"
    /\ \E v \in XValues(tview["read_y_then_x"]) :
          /\ x_read' = v
          /\ fpc' = [fpc EXCEPT !["read_y_then_x"] =
                        CASE v = "true" -> "inc" [] v = "false" -> "done"
                          [] OTHER -> "crashed"]
    /\ UNCHANGED <<x_atomic, mem, z, main_pc, main_view, tview, frel, facq, spins, assert_result>>
    /\ UNCHANGED otherThanFence

\* ++z;
IncZ ==
    /\ fpc["read_y_then_x"] = "inc"
    /\ z' = z + 1
    /\ fpc' = [fpc EXCEPT !["read_y_then_x"] = "done"]
    /\ UNCHANGED <<x_atomic, mem, main_pc, main_view, tview, frel, facq, x_read, spins, assert_result>>
    /\ UNCHANGED otherThanFence

\* a.join(); b.join(); the end of the thread synchronizes with the return
\* of join
MainJoin(t) ==
    /\ \/ main_pc = "join_a" /\ t = "write_x_then_y" /\ main_pc' = "join_b"
       \/ main_pc = "join_b" /\ t = "read_y_then_x" /\ main_pc' = "assert"
    /\ fpc[t] = "done"
    /\ main_view' = JoinView(main_view, tview[t])
    /\ UNCHANGED <<x_atomic, mem, z, fpc, tview, frel, facq, x_read, spins, assert_result>>
    /\ UNCHANGED otherThanFence

\* assert(z.load() != 0);
MainAssert ==
    /\ main_pc = "assert"
    /\ assert_result' = IF z # 0 THEN "passed" ELSE "failed"
    /\ main_pc' = "done"
    /\ UNCHANGED <<x_atomic, mem, z, main_view, fpc, tview, frel, facq, x_read, spins>>
    /\ UNCHANGED otherThanFence

NextFence ==
    \/ \E prog \in {"atomic", "plain"} : MainStoreX(prog)
    \/ MainStoreY
    \/ MainStoreZ
    \/ \E t \in FenceThreads : MainStart(t)
    \/ WriteX
    \/ WriteFence
    \/ WriteY
    \/ ReadY
    \/ ReadFence
    \/ ReadX
    \/ IncZ
    \/ \E t \in FenceThreads : MainJoin(t)
    \/ MainAssert

(* ----------------------------- spinlock_mutex -------------------------- *)
\* spinlock_mutex() : flag(ATOMIC_FLAG_INIT) {}
InitSpin ==
    /\ flag = FALSE
    /\ spc = [t \in SpinThreads |-> "out"]
    /\ tas = [t \in SpinThreads |-> "none"]

\* the call of lock()
SpinLockCall(t) ==
    /\ spc[t] = "out"
    /\ spc' = [spc EXCEPT ![t] = "lock"]
    /\ UNCHANGED <<flag, tas>>
    /\ UNCHANGED otherThanSpin

\* a test_and_set that does not look at the flag
test_and_set_blind(f) == [old |-> FALSE, flag |-> TRUE]

\* flag.test_and_set(std::memory_order_acquire): one atomic read-modify-write
\* that sets the flag and returns what it was
test_and_set(f) == [old |-> f, flag |-> TRUE]

\* while(flag.test_and_set(std::memory_order_acquire)); one iteration: the
\* loop ends, and lock() returns, when test_and_set returns false
SpinTestAndSet(t) ==
    /\ spc[t] = "lock"
    /\ LET r == test_and_set(flag)
       IN /\ flag' = r.flag
          /\ tas' = [tas EXCEPT ![t] = IF r.old THEN "true" ELSE "false"]
          /\ spc' = [spc EXCEPT ![t] = IF r.old THEN "lock" ELSE "held"]
    /\ UNCHANGED otherThanSpin

\* flag.clear(std::memory_order_release)
clear(f) == FALSE

\* unlock(), called by the thread whose lock() has returned
SpinUnlock(t) ==
    /\ spc[t] = "held"
    /\ flag' = clear(flag)
    /\ spc' = [spc EXCEPT ![t] = "out"]
    /\ UNCHANGED tas
    /\ UNCHANGED otherThanSpin

NextSpin ==
    \E t \in SpinThreads :
       \/ SpinLockCall(t)
       \/ SpinTestAndSet(t)
       \/ SpinUnlock(t)

(* ---------------------------- threadsafe_stack ------------------------- *)
\* what a call gave: nothing yet, a value, the answer of empty(), or the
\* exception empty_stack
NoCall == [op |-> "none", threw |-> FALSE, val |-> NoValue, empty |-> FALSE]
Returned(o, v) == [op |-> o, threw |-> FALSE, val |-> v, empty |-> FALSE]
Threw(o) == [op |-> o, threw |-> TRUE, val |-> NoValue, empty |-> FALSE]
Answered(e) == [op |-> "empty", threw |-> FALSE, val |-> NoValue, empty |-> e]

\* threadsafe_stack() {}
InitStack ==
    /\ stack_data = <<>>
    /\ stack_m = NoThread
    /\ stk_pc = [t \in StackThreads |-> "idle"]
    /\ stk_val = [t \in StackThreads |-> NoValue]
    /\ stk_res = [t \in StackThreads |-> NoCall]
    /\ pushCount = 0
    /\ stackPushLog = <<>>
    /\ stackPopLog = <<>>

\* a call of push(new_value), of pop(), of pop(value) or of empty()
StackCall(t, op) ==
    /\ stk_pc[t] = "idle"
    /\ op = "push" => pushCount < MaxPush
    /\ pushCount' = IF op = "push" THEN pushCount + 1 ELSE pushCount
    /\ stk_val' = [stk_val EXCEPT ![t] = IF op = "push" THEN pushCount + 1 ELSE NoValue]
    /\ stk_pc' = [stk_pc EXCEPT ![t] = op \o "_lock"]
    /\ UNCHANGED <<stack_data, stack_m, stk_res, stackPushLog, stackPopLog>>
    /\ UNCHANGED otherThanStack

\* a mutex that everybody can lock at once
mutex_unguarded(owner) == TRUE

\* m can be locked when no thread owns it
mutex_free(owner) == owner = NoThread

\* std::lock_guard<std::mutex> lock(m);
StackLock(t) ==
    /\ stk_pc[t] \in {"push_lock", "pop_lock", "pop_ref_lock", "empty_lock"}
    /\ mutex_free(stack_m)
    /\ stack_m' = t
    /\ stk_pc' = [stk_pc EXCEPT ![t] =
                    CASE @ = "push_lock" -> "push_body"
                      [] @ = "pop_lock" -> "pop_check"
                      [] @ = "pop_ref_lock" -> "pop_ref_check"
                      [] @ = "empty_lock" -> "empty_body"]
    /\ UNCHANGED <<stack_data, stk_val, stk_res, pushCount, stackPushLog, stackPopLog>>
    /\ UNCHANGED otherThanStack

\* data.push(std::move(new_value)); and the lock_guard is destroyed
StackPush(t) ==
    /\ stk_pc[t] = "push_body"
    /\ stack_data' = Append(stack_data, stk_val[t])
    /\ stackPushLog' = Append(stackPushLog, stk_val[t])
    /\ stack_m' = NoThread
    /\ stk_res' = [stk_res EXCEPT ![t] = Returned("push", NoValue)]
    /\ stk_val' = [stk_val EXCEPT ![t] = NoValue]
    /\ stk_pc' = [stk_pc EXCEPT ![t] = "idle"]
    /\ UNCHANGED <<pushCount, stackPopLog>>
    /\ UNCHANGED otherThanStack

\* if(data.empty()) throw empty_stack(); the exception destroys the
\* lock_guard
StackPopCheck(t) ==
    /\ stk_pc[t] \in {"pop_check", "pop_ref_check"}
    /\ IF stack_data = <<>>
          THEN /\ stack_m' = NoThread
               /\ stk_res' = [stk_res EXCEPT ![t] =
                                 Threw(IF stk_pc[t] = "pop_check" THEN "pop" ELSE "pop_ref")]
               /\ stk_pc' = [stk_pc EXCEPT ![t] = "idle"]
          ELSE /\ stk_pc' = [stk_pc EXCEPT ![t] =
                                 IF @ = "pop_check" THEN "pop_top" ELSE "pop_ref_top"]
               /\ UNCHANGED <<stack_m, stk_res>>
    /\ UNCHANGED <<stack_data, stk_val, pushCount, stackPushLog, stackPopLog>>
    /\ UNCHANGED otherThanStack

\* data.top(): the last element; of an empty stack the behaviour is
\* undefined, any value may come out
stack_top(d) == IF d = <<>> THEN 0..MaxPush ELSE {d[Len(d)]}

\* std::shared_ptr<T> const res(std::make_shared<T>(data.top())); or
\* value = data.top();
StackTop(t) ==
    /\ stk_pc[t] \in {"pop_top", "pop_ref_top"}
    /\ \E v \in stack_top(stack_data) : stk_val' = [stk_val EXCEPT ![t] = v]
    /\ stk_pc' = [stk_pc EXCEPT ![t] = IF @ = "pop_top" THEN "pop_pop" ELSE "pop_ref_pop"]
    /\ UNCHANGED <<stack_data, stack_m, stk_res, pushCount, stackPushLog, stackPopLog>>
    /\ UNCHANGED otherThanStack

\* a pop that removes nothing
stack_pop_keep(d) == d

\* data.pop(): removes the last element; of an empty stack the behaviour
\* is undefined, the stack is left as it is
stack_pop(d) == IF d = <<>> THEN d ELSE SubSeq(d, 1, Len(d) - 1)

\* data.pop(); return res; and the lock_guard is destroyed
StackPopReturn(t) ==
    /\ stk_pc[t] \in {"pop_pop", "pop_ref_pop"}
    /\ stack_data' = stack_pop(stack_data)
    /\ stackPopLog' = Append(stackPopLog, stk_val[t])
    /\ stack_m' = NoThread
    /\ stk_res' = [stk_res EXCEPT ![t] =
                      Returned(IF stk_pc[t] = "pop_pop" THEN "pop" ELSE "pop_ref", stk_val[t])]
    /\ stk_val' = [stk_val EXCEPT ![t] = NoValue]
    /\ stk_pc' = [stk_pc EXCEPT ![t] = "idle"]
    /\ UNCHANGED <<pushCount, stackPushLog>>
    /\ UNCHANGED otherThanStack

\* return data.empty(); and the lock_guard is destroyed
StackEmpty(t) ==
    /\ stk_pc[t] = "empty_body"
    /\ stk_res' = [stk_res EXCEPT ![t] = Answered(stack_data = <<>>)]
    /\ stack_m' = NoThread
    /\ stk_pc' = [stk_pc EXCEPT ![t] = "idle"]
    /\ UNCHANGED <<stack_data, stk_val, pushCount, stackPushLog, stackPopLog>>
    /\ UNCHANGED otherThanStack

NextStack ==
    \E t \in StackThreads :
       \/ \E op \in {"push", "pop", "pop_ref", "empty"} : StackCall(t, op)
       \/ StackLock(t)
       \/ StackPush(t)
       \/ StackPopCheck(t)
       \/ StackTop(t)
       \/ StackPopReturn(t)
       \/ StackEmpty(t)

(* ------------------------------ swap(X&, X&) --------------------------- *)
\* X(some_big_object const& sd) : some_detail(sd) {}: every instance starts
\* with a detail of its own
InitSwap ==
    /\ some_detail = [o \in XObjects |-> <<"detail", o>>]
    /\ x_m = [o \in XObjects |-> NoThread]
    /\ swpc = [t \in SwapThreads |-> "idle"]
    /\ lhs = [t \in SwapThreads |-> "a"]
    /\ rhs = [t \in SwapThreads |-> "a"]
    /\ lock_first = [t \in SwapThreads |-> "a"]
    /\ lock_order = [t \in SwapThreads |-> "lock_guard"]
    /\ sw_locked = [t \in SwapThreads |-> {}]
    /\ swap_calls = 0

\* the other argument of the call
OtherOf(t, o) == IF o = lhs[t] THEN rhs[t] ELSE lhs[t]

\* a call swap(l, r) of the friend of X or of the C++17 version
SwapCall(t, l, r, version) ==
    /\ swpc[t] = "idle"
    /\ swap_calls < MaxSwapCalls
    /\ swap_calls' = swap_calls + 1
    /\ lhs' = [lhs EXCEPT ![t] = l]
    /\ rhs' = [rhs EXCEPT ![t] = r]
    /\ lock_order' = [lock_order EXCEPT ![t] = version]
    /\ sw_locked' = [sw_locked EXCEPT ![t] = {}]
    /\ swpc' = [swpc EXCEPT ![t] = "check"]
    /\ UNCHANGED <<some_detail, x_m, lock_first>>
    /\ UNCHANGED otherThanSwap

\* if(&lhs == &rhs) return; otherwise std::lock or the constructor of
\* std::scoped_lock starts: which mutex it takes first is unspecified
SwapCheck(t) ==
    /\ swpc[t] = "check"
    /\ IF lhs[t] = rhs[t]
          THEN /\ swpc' = [swpc EXCEPT ![t] = "idle"]
               /\ UNCHANGED lock_first
          ELSE /\ swpc' = [swpc EXCEPT ![t] = "lock_one"]
               /\ \E o \in {lhs[t], rhs[t]} : lock_first' = [lock_first EXCEPT ![t] = o]
    /\ UNCHANGED <<some_detail, x_m, lhs, rhs, lock_order, sw_locked, swap_calls>>
    /\ UNCHANGED otherThanSwap

\* std::lock: m.lock() on one of the two mutexes, which blocks while another
\* thread owns it
SwapLockOne(t) ==
    /\ swpc[t] = "lock_one"
    /\ x_m[lock_first[t]] = NoThread
    /\ x_m' = [x_m EXCEPT ![lock_first[t]] = t]
    /\ sw_locked' = [sw_locked EXCEPT ![t] = @ \cup {lock_first[t]}]
    /\ swpc' = [swpc EXCEPT ![t] = "try_other"]
    /\ UNCHANGED <<some_detail, lhs, rhs, lock_first, lock_order, swap_calls>>
    /\ UNCHANGED otherThanSwap

\* a second acquisition that waits for the mutex instead of giving up
lock_blocking(owner) == IF owner = NoThread THEN {TRUE} ELSE {}

\* std::mutex::try_lock(): false when the mutex is owned, and allowed to
\* fail when it is not
try_lock(owner) == IF owner = NoThread THEN {TRUE, FALSE} ELSE {FALSE}

\* std::lock: m.try_lock() on the other mutex; when it succeeds both are
\* locked and std::lock returns
SwapTryOther(t, ok) ==
    /\ swpc[t] = "try_other"
    /\ ok \in try_lock(x_m[OtherOf(t, lock_first[t])])
    /\ IF ok
          THEN /\ x_m' = [x_m EXCEPT ![OtherOf(t, lock_first[t])] = t]
               /\ sw_locked' = [sw_locked EXCEPT ![t] = @ \cup {OtherOf(t, lock_first[t])}]
               /\ swpc' = [swpc EXCEPT ![t] = "exchange"]
          ELSE /\ swpc' = [swpc EXCEPT ![t] = "back_off"]
               /\ UNCHANGED <<x_m, sw_locked>>
    /\ UNCHANGED <<some_detail, lhs, rhs, lock_first, lock_order, swap_calls>>
    /\ UNCHANGED otherThanSwap

\* std::lock: after a failed try_lock the mutex held is unlocked, and the
\* next round starts with the mutex that could not be taken
SwapBackOff(t) ==
    /\ swpc[t] = "back_off"
    /\ x_m' = [x_m EXCEPT ![lock_first[t]] = NoThread]
    /\ lock_first' = [lock_first EXCEPT ![t] = OtherOf(t, @)]
    /\ swpc' = [swpc EXCEPT ![t] = "lock_one"]
    /\ UNCHANGED <<some_detail, lhs, rhs, lock_order, sw_locked, swap_calls>>
    /\ UNCHANGED otherThanSwap

\* swap(lhs.some_detail, rhs.some_detail);
SwapExchange(t) ==
    /\ swpc[t] = "exchange"
    /\ some_detail' = [some_detail EXCEPT ![lhs[t]] = some_detail[rhs[t]],
                                          ![rhs[t]] = some_detail[lhs[t]]]
    /\ swpc' = [swpc EXCEPT ![t] = "unlock_one"]
    /\ UNCHANGED <<x_m, lhs, rhs, lock_first, lock_order, sw_locked, swap_calls>>
    /\ UNCHANGED otherThanSwap

\* the mutexes the guards can release first: lock_b, declared last, is
\* destroyed first and releases rhs.m; the order in which the destructor of
\* std::scoped_lock releases is not fixed by the source
FirstReleased(t) == IF lock_order[t] = "lock_guard" THEN {rhs[t]} ELSE {lhs[t], rhs[t]}

\* the first guard releases its mutex
SwapUnlockOne(t) ==
    /\ swpc[t] = "unlock_one"
    /\ \E o \in FirstReleased(t) : x_m' = [x_m EXCEPT ![o] = NoThread]
    /\ swpc' = [swpc EXCEPT ![t] = "unlock_other"]
    /\ UNCHANGED <<some_detail, lhs, rhs, lock_first, lock_order, sw_locked, swap_calls>>
    /\ UNCHANGED otherThanSwap

\* the other mutex is released, and swap returns
SwapReturn(t) ==
    /\ swpc[t] = "unlock_other"
    /\ x_m' = [o \in XObjects |-> IF x_m[o] = t THEN NoThread ELSE x_m[o]]
    /\ swpc' = [swpc EXCEPT ![t] = "idle"]
    /\ UNCHANGED <<some_detail, lhs, rhs, lock_first, lock_order, sw_locked, swap_calls>>
    /\ UNCHANGED otherThanSwap

\* the steps of a thread inside swap
SwapRun(t) ==
    \/ SwapCheck(t)
    \/ SwapLockOne(t)
    \/ \E ok \in BOOLEAN : SwapTryOther(t, ok)
    \/ SwapBackOff(t)
    \/ SwapExchange(t)
    \/ SwapUnlockOne(t)
    \/ SwapReturn(t)

NextSwap ==
    \E t \in SwapThreads :
       \/ \E l, r \in XObjects, version \in {"lock_guard", "scoped_lock"} :
             SwapCall(t, l, r, version)
       \/ SwapRun(t)

(* --------------------------- hierarchical_mutex ------------------------ *)
InitHierarchy ==
    /\ internal_mutex = [mx \in HMutexes |-> NoThread]
    /\ previous_hierarchy_value = [mx \in HMutexes |-> 0]
    /\ this_thread_hierarchy_value = [t \in HThreads |-> ULONG_MAX]
    /\ hpc = [t \in HThreads |-> "idle"]
    /\ hmx = [t \in HThreads |-> "none"]
    /\ held = [t \in HThreads |-> <<>>]
    /\ hlog = [t |-> NoThread, op |-> "none", mx |-> "none", res |-> "none"]
    /\ hcalls = 0

\* a check that never throws
no_violation(t, mx) == FALSE

\* a check that lets a lock of the same level through
violation_if_lower(t, mx) == this_thread_hierarchy_value[t] < hierarchy_value[mx]

\* a check that lets a thread through to an instance it owns
violation_unless_held(t, mx) ==
    this_thread_hierarchy_value[t] <= hierarchy_value[mx] /\ internal_mutex[mx] # t

\* check_for_hierarchy_violation(): TRUE when it throws std::logic_error
check_for_hierarchy_violation(t, mx) ==
    this_thread_hierarchy_value[t] <= hierarchy_value[mx]

\* an update that saves the level of the thread and leaves it as it is
update_previous_only(t, mx) ==
    /\ previous_hierarchy_value' =
          [previous_hierarchy_value EXCEPT ![mx] = this_thread_hierarchy_value[t]]
    /\ UNCHANGED this_thread_hierarchy_value

\* update_hierarchy_value()
update_hierarchy_value(t, mx) ==
    /\ previous_hierarchy_value' =
          [previous_hierarchy_value EXCEPT ![mx] = this_thread_hierarchy_value[t]]
    /\ this_thread_hierarchy_value' =
          [this_thread_hierarchy_value EXCEPT ![t] = hierarchy_value[mx]]

\* lock(): check_for_hierarchy_violation(); then internal_mutex.lock() starts
HLockCall(t, mx) ==
    /\ hpc[t] = "idle"
    /\ IF check_for_hierarchy_violation(t, mx)
          THEN /\ hlog' = [t |-> t, op |-> "lock", mx |-> mx, res |-> "logic_error"]
               /\ UNCHANGED <<hpc, hmx, hcalls>>
          ELSE /\ hcalls < MaxLockCalls
               /\ hcalls' = hcalls + 1
               /\ hpc' = [hpc EXCEPT ![t] = "locking"]
               /\ hmx' = [hmx EXCEPT ![t] = mx]
               /\ hlog' = [t |-> t, op |-> "lock", mx |-> mx, res |-> "blocked"]
    /\ UNCHANGED <<internal_mutex, previous_hierarchy_value,
                   this_thread_hierarchy_value, held>>
    /\ UNCHANGED otherThanHierarchy

\* lock(): internal_mutex.lock() returns; update_hierarchy_value()
HLockAcquire(t) ==
    /\ hpc[t] = "locking"
    /\ internal_mutex[hmx[t]] = NoThread
    /\ internal_mutex' = [internal_mutex EXCEPT ![hmx[t]] = t]
    /\ update_hierarchy_value(t, hmx[t])
    /\ held' = [held EXCEPT ![t] = Append(@, hmx[t])]
    /\ hlog' = [t |-> t, op |-> "lock", mx |-> hmx[t], res |-> "ok"]
    /\ hpc' = [hpc EXCEPT ![t] = "idle"]
    /\ hmx' = [hmx EXCEPT ![t] = "none"]
    /\ UNCHANGED hcalls
    /\ UNCHANGED otherThanHierarchy

\* a try_lock() of std::mutex that always reports success
try_lock_succeeds(mx) == {TRUE}

\* internal_mutex.try_lock(): the values it can return; it fails when the
\* mutex is owned and is allowed to fail although the mutex is free
internal_mutex_try_lock(mx) ==
    IF internal_mutex[mx] = NoThread THEN {TRUE, FALSE} ELSE {FALSE}

\* try_lock()
HTryLock(t, mx) ==
    /\ hpc[t] = "idle"
    /\ IF check_for_hierarchy_violation(t, mx)
          THEN /\ hlog' = [t |-> t, op |-> "try_lock", mx |-> mx, res |-> "logic_error"]
               /\ UNCHANGED <<internal_mutex, previous_hierarchy_value,
                              this_thread_hierarchy_value, held, hcalls>>
          ELSE \E locked \in internal_mutex_try_lock(mx) :
                  IF ~locked
                  THEN /\ hlog' = [t |-> t, op |-> "try_lock", mx |-> mx, res |-> "false"]
                       /\ UNCHANGED <<internal_mutex, previous_hierarchy_value,
                                      this_thread_hierarchy_value, held, hcalls>>
                  ELSE /\ hcalls < MaxLockCalls
                       /\ hcalls' = hcalls + 1
                       /\ internal_mutex' = [internal_mutex EXCEPT ![mx] = t]
                       /\ update_hierarchy_value(t, mx)
                       /\ held' = [held EXCEPT ![t] = Append(@, mx)]
                       /\ hlog' = [t |-> t, op |-> "try_lock", mx |-> mx, res |-> "true"]
    /\ UNCHANGED <<hpc, hmx>>
    /\ UNCHANGED otherThanHierarchy

Without(s, x) == SelectSeq(s, LAMBDA y : y # x)

\* an unlock() that never throws
unlock_unchecked(t, mx) == FALSE

\* unlock(): TRUE when it throws std::logic_error,
\* if(this_thread_hierarchy_value != hierarchy_value)
unlock_violation(t, mx) ==
    this_thread_hierarchy_value[t] # hierarchy_value[mx]

\* unlock(), called by the thread that owns the instance, or by any thread
\* whose call throws before it reaches internal_mutex.unlock()
HUnlock(t, mx) ==
    /\ hpc[t] = "idle"
    /\ internal_mutex[mx] = t \/ unlock_violation(t, mx)
    /\ IF unlock_violation(t, mx)
          THEN /\ hlog' = [t |-> t, op |-> "unlock", mx |-> mx, res |-> "logic_error"]
               /\ UNCHANGED <<internal_mutex, this_thread_hierarchy_value, held>>
          ELSE /\ this_thread_hierarchy_value' =
                     [this_thread_hierarchy_value EXCEPT ![t] = previous_hierarchy_value[mx]]
               /\ internal_mutex' = [internal_mutex EXCEPT ![mx] = NoThread]
               /\ held' = [held EXCEPT ![t] = Without(@, mx)]
               /\ hlog' = [t |-> t, op |-> "unlock", mx |-> mx, res |-> "ok"]
    /\ UNCHANGED <<previous_hierarchy_value, hpc, hmx, hcalls>>
    /\ UNCHANGED otherThanHierarchy

\* a thread gives back the instance it acquired last
HReleaseLast(t) ==
    /\ held[t] # <<>>
    /\ HUnlock(t, held[t][Len(held[t])])

HThreadStep(t) ==
    \/ \E mx \in HMutexes : HLockCall(t, mx)
    \/ HLockAcquire(t)
    \/ \E mx \in HMutexes : HTryLock(t, mx)
    \/ \E mx \in HMutexes : HUnlock(t, mx)

NextHierarchy == \E t \in HThreads : HThreadStep(t)

\* unlock() called by a thread that does not own the instance and whose
\* level is that of the instance: the test passes, the level of the thread
\* becomes the value saved in the instance, and internal_mutex.unlock() is
\* called by a thread that does not own internal_mutex, which is undefined:
\* the mutex is released or stays as it is
HUnlockNotOwned(t, mx) ==
    /\ hpc[t] = "idle"
    /\ internal_mutex[mx] # t
    /\ ~unlock_violation(t, mx)
    /\ this_thread_hierarchy_value' =
          [this_thread_hierarchy_value EXCEPT ![t] = previous_hierarchy_value[mx]]
    /\ \E owner \in {internal_mutex[mx], NoThread} :
          internal_mutex' = [internal_mutex EXCEPT ![mx] = owner]
    /\ hlog' = [t |-> t, op |-> "unlock", mx |-> mx, res |-> "ok"]
    /\ UNCHANGED <<previous_hierarchy_value, hpc, hmx, held, hcalls>>
    /\ UNCHANGED otherThanHierarchy

\* the threads also call unlock() on instances they do not own
NextHierarchyAnyUnlock ==
    \/ NextHierarchy
    \/ \E t \in HThreads, mx \in HMutexes : HUnlockNotOwned(t, mx)

Init ==
    /\ InitQ /\ InitChan /\ InitPool /\ InitPromise /\ InitHierarchy /\ InitTimed
    /\ InitPublish /\ InitFence /\ InitSpin
    /\ InitStack /\ InitSwap

SpecQ == Init /\ [][NextQ]_vars

SpecPool == Init /\ [][NextPool]_vars

SpecPromise == Init /\ [][NextPromise]_vars

\* the scheduler runs a thread whose wait can return; nothing obliges a
\* completer to complete
FairSpecPromise ==
    /\ SpecPromise
    /\ \A a \in Awaiters : WF_vars(AwaitReturn(a))

SpecHierarchy == Init /\ [][NextHierarchy]_vars

SpecHierarchyAnyUnlock == Init /\ [][NextHierarchyAnyUnlock]_vars

SpecTimed == Init /\ [][NextTimed]_vars

SpecPublish == Init /\ [][NextPublish]_vars

SpecFence == Init /\ [][NextFence]_vars

SpecSpin == Init /\ [][NextSpin]_vars

SpecStack == Init /\ [][NextStack]_vars

SpecSwap == Init /\ [][NextSwap]_vars

\* the scheduler runs every thread that is inside swap and can take a step,
\* and a try_lock on a mutex that is free again and again does not fail for
\* ever; nothing obliges a thread to call swap
FairSpecSwap ==
    /\ SpecSwap
    /\ \A t \in SwapThreads : WF_vars(SwapRun(t)) /\ SF_vars(SwapTryOther(t, TRUE))

\* the thread std::async started runs, the clock advances, and a call that
\* can return does; nothing obliges the owner of f to call wait_for or get
FairSpecTimed ==
    /\ SpecTimed
    /\ WF_vars(SomeTaskRun) /\ WF_vars(WaitForExpire) /\ WF_vars(WaitForReturn)
    /\ WF_vars(DeferredRun) /\ WF_vars(GetReturn)

\* the scheduler runs a thread whose internal_mutex.lock() can return, and
\* every thread eventually gives back what it owns
FairSpecHierarchy ==
    /\ SpecHierarchy
    /\ \A t \in HThreads : WF_vars(HLockAcquire(t)) /\ WF_vars(HReleaseLast(t))

\* the scheduler runs clients inside a post, gui threads, returning waits
\* and the join; nobody is obliged to post, to wait or to shut down
FairSpecPool ==
    /\ SpecPool
    /\ \A c \in Clients : WF_vars(ClientRun(c))
    /\ \A w \in Workers : WF_vars(WorkerStep(w))
    /\ \A a \in Awaiters : WF_vars(AwaitReturn(a))
    /\ WF_vars(JoinReturn)

\* the scheduler runs every thread that is inside a call and can take a step;
\* nothing obliges a consumer to call, and spurious wakes need not happen
FairSpecQ ==
    /\ SpecQ
    /\ \A p \in Producers : WF_vars(ProducerStep(p))
    /\ \A c \in Consumers : WF_vars(WaitAndPopRun(c) \/ TryPopRun(c))

(* ----------------------- threadsafe_queue: claims ---------------------- *)
Range(s) == {s[i] : i \in 1..Len(s)}
PoppedItems == popLog
PosIn(s, x) == CHOOSE i \in 1..Len(s) : s[i] = x

\* C1: FIFO.  The items removed so far, in removal order, followed by the
\* pending items, are exactly the items in the order their appends took
\* place (no operation reorders pending items), and when push(a) returned
\* before push(b) was called, a was appended before b and b is never removed
\* while a is still pending.
C1_FIFO ==
    /\ PoppedItems \o data_queue = pushLog
    /\ \A ab \in before :
          /\ ab[1] \in Range(pushLog)
          /\ ab[2] \in Range(pushLog) => PosIn(pushLog, ab[1]) < PosIn(pushLog, ab[2])
          /\ ab[2] \in Range(PoppedItems) =>
                /\ ab[1] \in Range(PoppedItems)
                /\ PosIn(PoppedItems, ab[1]) < PosIn(PoppedItems, ab[2])

\* two pushes ordered in real time, both items removed, while a third
\* operation is under way
C1_Witness ==
    /\ \E ab \in before :
          ab[1] \in Range(PoppedItems) /\ ab[2] \in Range(PoppedItems)
    /\ \E t \in QThreads : qpc[t] # "idle"

\* a consumer is inside a call and no longer blocked in wait()
Awake(c) == qpc[c] \in {"wp_relock", "wp_check", "tp_check"}

\* no consumer is blocked in wait() while an item is pending, unless another
\* consumer is on its way to the queue or a notification is still to come
NoStrandedWaiter ==
    (data_cond # {} /\ data_queue # <<>>) =>
        \/ \E c \in Consumers : Awake(c)
        \/ \E p \in Producers : qpc[p] = "prep_notify"

InWaitAndPop(c) == qpc[c] \in {"wp_check", "wp_wait", "wp_relock"}

\* C2: no lost wakeup.  No consumer is blocked in wait() with an item pending
\* and nobody on the way to it, and no consumer stays inside wait_and_pop
\* for ever while an item is pending: it returns with an item unless others
\* empty the queue.  This covers notify_one under the lock (push) and after
\* the unlock (data_preparation_thread).
C2_NoLostWakeup ==
    /\ [] NoStrandedWaiter
    /\ \A c \in Consumers : []<>(~InWaitAndPop(c) \/ data_queue = <<>>)

\* consumers that blocked in wait() before the append have returned an item,
\* once released by a notification under the lock and once by one after the
\* unlock
C2_Witness == NotifyKinds \subseteq popKinds

\* C3: no duplicate delivery.  No item is returned by two dequeue calls,
\* whatever the consumers and operations, and every returned item is one that
\* a push appended before.
C3_NoDuplicateDelivery ==
    /\ \A i, j \in 1..Len(popLog) : i # j => popLog[i] # popLog[j]
    /\ \A i \in 1..Len(popLog) : popLog[i] \in Range(pushLog)

\* items were returned by a wait_and_pop that had blocked and by try_pop, and
\* two consumers, one in each operation, are inside a call at the same time
C3_Witness ==
    /\ "try_pop" \in popKinds /\ popKinds \cap NotifyKinds # {}
    /\ \E c1, c2 \in Consumers :
          c1 # c2 /\ qpc[c1] = "wp_relock" /\ qpc[c2] = "tp_check"

\* C22: predicate re-check.  A consumer in wait_and_pop that holds the lock
\* and tests the predicate, at the call or after any wake, removes an element
\* only when the queue is not empty, and then it is the head; when the queue
\* is empty, after a spurious wake or because another consumer took the item,
\* it blocks again and neither the queue nor what has been returned changes.
C22_PredicateRecheck ==
    [][\A c \in Consumers :
          (qpc[c] = "wp_check" /\ qpc'[c] # "wp_check") =>
              IF data_queue = <<>>
              THEN /\ qpc'[c] = "wp_wait" /\ c \in data_cond'
                   /\ data_queue' = data_queue /\ popLog' = popLog
              ELSE /\ qpc'[c] = "idle"
                   /\ popLog' = Append(popLog, Head(data_queue))
                   /\ data_queue' = Tail(data_queue)]_vars

\* a consumer that was woken found the queue empty and blocks again; the
\* items pushed so far were all taken by try_pop
C22_Witness ==
    /\ popKinds = {"try_pop"}
    /\ data_queue = <<>>
    /\ \E c \in Consumers :
          qpc[c] = "wp_wait" /\ waited[c] = "blocked_again" /\ c \in data_cond

Capacity == MaxItems - 1

StoredResultKept ==
    \A e \in setLog : e.before.state # "Pending" => (~e.ok /\ e.after = e.before)

\* C4: write-once.  After the first set_value / set_exception on a channel
\* every later call fails (AlreadyCompleted) and the stored value or error
\* is the same before and after it; a state that is Ready or Failed never
\* changes again.
C4_WriteOnce ==
    /\ [] StoredResultKept
    /\ [][\A ch \in Chans :
             chan[ch].state \in {"Ready", "Failed"} => chan'[ch] = chan[ch]]_vars

\* on a Ready state a set_value was refused, and the set_exception of the
\* handler after it as well
C4_Witness ==
    /\ \E e \in setLog : e.op = "set_value" /\ e.before.state = "Ready" /\ ~e.ok
    /\ \E e \in setLog : e.op = "set_exception" /\ e.before.state = "Ready" /\ ~e.ok

Abandoned == FutureGet(FailedChan("Abandoned"))

\* C5: abandonment.  A channel whose completer was destroyed while the state
\* was Pending is Failed with Abandoned; every wait on it, blocked at that
\* moment or started later, returns, and returns Abandoned.
C5_Abandonment ==
    /\ [] (\A ch \in dropped : chan[ch] = FailedChan("Abandoned"))
    /\ [] (\A r \in waitResults : r[1] \in dropped => r[2] = Abandoned)
    /\ \A a \in Awaiters : []<>(~(apc[a] = "waiting" /\ achan[a] \in dropped))

\* a wait on an abandoned task has returned Abandoned
C5_Witness ==
    \E r \in waitResults : r[1] \in dropped /\ r[2] = Abandoned

\* C23: completion wakes everyone.  Once set_value or set_exception has
\* completed a channel, every wait on it can return at once, whether it
\* was blocked at that moment or starts afterwards, and does return; every
\* wait on the channel returns the value or error that is stored, so all
\* of them return the same.
C23_WakesEveryone ==
    /\ [] (\A a \in Awaiters :
              (apc[a] = "waiting" /\ chan[achan[a]].state \in {"Ready", "Failed"})
                  => ENABLED AwaitReturn(a))
    /\ \A a \in Awaiters :
          []<>(~(apc[a] = "waiting" /\ chan[achan[a]].state \in {"Ready", "Failed"}))
    /\ [] (\A r \in waitResults : r[2] = FutureGet(chan[r[1]]))
    /\ [] (\A r1, r2 \in waitResults : r1[1] = r2[1] => r1[2] = r2[2])
    /\ [][\A a \in Awaiters :
             (apc[a] = "waiting" /\ apc'[a] = "idle")
                => <<achan[a], FutureGet(chan[achan[a]])>> \in waitResults']_vars

\* a completer has stored a value, one wait on the channel has returned it,
\* and the wait of another thread is still to return
C23_Witness ==
    /\ chan[some_promise].state = "Ready"
    /\ waitResults = {<<some_promise, FutureGet(chan[some_promise])>>}
    /\ \E a1, a2 \in Awaiters :
          /\ a1 # a2
          /\ apc[a1] = "idle"
          /\ apc[a2] = "waiting" /\ achan[a2] = some_promise

(* ----------------------- gui_thread pool: claims ----------------------- *)
Executed == {execLog[i][2] : i \in 1..Len(execLog)}
AllStopped == \A w \in Workers : wpc[w] \in {"done", "terminated"}

Unserved(t) == t \in Range(tasks) \/ \E w \in Workers : wtask[w] = t

\* the state a task's channel is left in by its invocation
Outcome(t) == IF func[t].throws THEN FailedChan(func[t].err) ELSE ReadyChan(func[t].val)

\* C10: task failure is captured.  A task that raises leaves its channel
\* Failed with the error it raised, a wait on it returns that error, and the
\* gui_thread that ran it is not terminated by it: every task queued is
\* executed unless the shutdown message arrives.
C10_FailureCaptured ==
    /\ [] (\A t \in Executed : chan[t] = Outcome(t))
    /\ [] (\A r \in waitResults : r[1] \in Executed => r[2] = FutureGet(Outcome(r[1])))
    /\ [] (\A w \in Workers : wpc[w] # "terminated")
    /\ \A t \in TaskIds : []<>(shutdown_msg \/ ~Unserved(t))

\* a gui_thread ran a task that raised DivisionByZero and then the next one,
\* and a wait on the first returned DivisionByZero
C10_Witness ==
    /\ Len(execLog) = 2
    /\ execLog[1][1] = execLog[2][1]
    /\ func[execLog[1][2]].throws /\ func[execLog[1][2]].err = "DivisionByZero"
    /\ \E r \in waitResults : r[1] = execLog[1][2] /\ r[2].err = "DivisionByZero"

\* the number of entries of the execution log that are invocations of t
TimesExecuted(t) == Cardinality({i \in 1..Len(execLog) : execLog[i][2] = t})

C12_SubmissionOrder ==
    Cardinality(Workers) = 1 =>
        /\ \A i \in 1..Len(execLog) : execLog[i][2] = appendLog[i]
        /\ \A i, j \in 1..Len(appendLog) :
              (i < j /\ chan[appendLog[j]].state # "Pending")
                  => chan[appendLog[i]].state # "Pending"
        /\ \A r \in waitResults :
              (r[1] \in Executed /\ ~func[r[1]].throws)
                  => r[2] = [val |-> func[r[1]].val, err |-> "none"]

\* tasks producing 1 and 2 were posted in that order and invoked in that
\* order by the one gui_thread; the waits on them returned 1 and 2
C12_Witness ==
    /\ Cardinality(Workers) = 1
    /\ appendLog = <<1, 2>>
    /\ Len(execLog) = 2
    /\ waitResults = {<<1, [val |-> 1, err |-> "none"]>>,
                      <<2, [val |-> 2, err |-> "none"]>>}

\* the tasks that have been in the deque: still there, taken by a
\* gui_thread, or destroyed with it
Queued == Range(tasks) \cup Range(takeLog) \cup dropped

\* C13: a post is atomic for its caller.  When a call of
\* post_task_for_gui_thread returns, its task is at the tail of the deque
\* and the future it returns belongs to that task and is Pending; a call has
\* no other way to end.  Outside a call a channel exists only for a task that
\* has been in the deque, every task in the deque has a channel, and every
\* wait is on the channel of a task that has been in the deque.
C13_AtomicSubmit ==
    /\ [] (\A t \in TaskIds :
              chan[t].state # "None" => (t \in Queued \/ \E c \in Clients : ctask[c] = t))
    /\ [] (\A i \in 1..Len(tasks) : chan[tasks[i]].state = "Pending")
    /\ [] (\A a \in Awaiters :
              (apc[a] = "waiting" /\ achan[a] \in TaskIds) => achan[a] \in Queued)
    /\ [][\A c \in Clients :
             (cpc[c] # "idle" /\ cpc'[c] = "idle") =>
                 /\ tasks' = Append(tasks, ctask[c])
                 /\ chan'[ctask[c]] = PendingChan]_vars

\* both posts have returned: the first task has been taken and completed,
\* the second is in the deque with its channel Pending, and a wait on the
\* second is under way
C13_Witness ==
    /\ \A c \in Clients : cpc[c] = "idle"
    /\ takeLog = <<1>> /\ chan[1].state # "Pending"
    /\ tasks = <<2>> /\ chan[2] = PendingChan
    /\ \E a \in Awaiters : apc[a] = "waiting" /\ achan[a] = 2

(* ---------------------- hierarchical_mutex: claims --------------------- *)
HeldLevels(t) == {hierarchy_value[held[t][i]] : i \in 1..Len(held[t])}

\* C6: lock hierarchy, both directions.  A thread is let into
\* internal_mutex.lock() only for an instance below every level it holds,
\* and gets the lock when it is free; a lock() on an instance at or above a
\* level the thread holds throws, it never blocks, whoever owns the instance;
\* a lock() on an instance below every held level does not throw.
C6_BothDirections ==
    /\ \A t \in HThreads :
          hpc[t] = "locking" =>
              \A l \in HeldLevels(t) : l > hierarchy_value[hmx[t]]
    /\ (hlog.op = "lock" /\ hlog.res = "logic_error") =>
          /\ hpc[hlog.t] = "idle"
          /\ \E l \in HeldLevels(hlog.t) : l <= hierarchy_value[hlog.mx]
    /\ (hlog.op = "lock" /\ hlog.res = "ok") =>
          /\ internal_mutex[hlog.mx] = hlog.t
          /\ \A i \in 1..(Len(held[hlog.t]) - 1) :
                hierarchy_value[held[hlog.t][i]] > hierarchy_value[hlog.mx]

\* one thread took the lower instance while holding the higher one; another,
\* holding a lower one, was refused the higher one while it was owned
C6_Witness ==
    \E t, u \in HThreads :
        /\ t # u
        /\ held[t] = <<"high_level_mutex", "other_mutex">>
        /\ held[u] = <<"low_level_mutex">>
        /\ hlog = [t |-> u, op |-> "lock", mx |-> "high_level_mutex",
                   res |-> "logic_error"]

\* the thread that owns the instance t is blocked on, if any
WaitsFor(t) ==
    IF hpc[t] = "locking" THEN internal_mutex[hmx[t]] ELSE NoThread

RECURSIVE ReachesIn(_, _, _)
\* following the waits-for edges from t for at most n steps leads to u
ReachesIn(t, u, n) ==
    IF n = 0 \/ WaitsFor(t) = NoThread THEN FALSE
    ELSE WaitsFor(t) = u \/ ReachesIn(WaitsFor(t), u, n - 1)

NoWaitCycle == \A t \in HThreads : ~ReachesIn(t, t, NumHThreads)

\* C7: deadlock freedom.  No set of threads each waits for an instance owned
\* by another thread of the set, and every thread blocked in lock() obtains
\* the lock, when every thread gives back what it owns.
C7_DeadlockFree ==
    /\ [] NoWaitCycle
    /\ \A t \in HThreads : []<>(hpc[t] # "locking")

\* a thread that owns an instance is blocked on one owned by another thread
C7_Witness ==
    \E t, u \in HThreads :
        /\ t # u
        /\ held[t] # <<>>
        /\ hpc[t] = "locking"
        /\ internal_mutex[hmx[t]] = u

\* C18: unlock().  A call by a thread whose level differs from the level of
\* the instance throws std::logic_error; the owner of internal_mutex, the
\* level of the thread and the saved levels are what they were.  A call by a
\* thread whose level is that of the instance does not throw: the level of
\* the thread becomes the value saved in the instance when it was acquired,
\* and internal_mutex is free.
C18_Unlock ==
    [][hlog'.op = "unlock" =>
          LET t == hlog'.t
              mx == hlog'.mx
          IN  /\ (this_thread_hierarchy_value[t] # hierarchy_value[mx]) =>
                    /\ hlog'.res = "logic_error"
                    /\ internal_mutex' = internal_mutex
                    /\ this_thread_hierarchy_value' = this_thread_hierarchy_value
                    /\ previous_hierarchy_value' = previous_hierarchy_value
              /\ (this_thread_hierarchy_value[t] = hierarchy_value[mx]) =>
                    /\ hlog'.res = "ok"
                    /\ this_thread_hierarchy_value' =
                          [this_thread_hierarchy_value EXCEPT
                              ![t] = previous_hierarchy_value[mx]]
                    /\ internal_mutex' = [internal_mutex EXCEPT ![mx] = NoThread]
                    /\ previous_hierarchy_value' = previous_hierarchy_value]_vars

\* a thread that owns two instances was refused the unlock of the one it
\* acquired first: it still owns both and its level is that of the second
C18_Witness ==
    \E t \in HThreads :
        /\ held[t] = <<"high_level_mutex", "low_level_mutex">>
        /\ hlog = [t |-> t, op |-> "unlock", mx |-> "high_level_mutex",
                   res |-> "logic_error"]
        /\ internal_mutex["high_level_mutex"] = t
        /\ this_thread_hierarchy_value[t] = hierarchy_value["low_level_mutex"]

\* C19: try_lock().  It makes the check lock() makes and never blocks.  With
\* a level at or below that of the instance it throws std::logic_error; when
\* the instance is owned it returns false; a call that throws or returns false
\* leaves the level of the thread, the saved levels and the owner as they
\* were; a call that returns true makes the thread the owner, saves the level
\* the thread had and makes the level of the instance the level of the thread.
C19_TryLock ==
    [][hlog'.op = "try_lock" =>
          LET t == hlog'.t
              mx == hlog'.mx
          IN  /\ hpc'[t] = "idle"
              /\ hlog'.res = "logic_error" <=>
                    this_thread_hierarchy_value[t] <= hierarchy_value[mx]
              /\ (/\ this_thread_hierarchy_value[t] > hierarchy_value[mx]
                  /\ internal_mutex[mx] # NoThread) => hlog'.res = "false"
              /\ hlog'.res \in {"logic_error", "false"} =>
                    /\ this_thread_hierarchy_value' = this_thread_hierarchy_value
                    /\ previous_hierarchy_value' = previous_hierarchy_value
                    /\ internal_mutex' = internal_mutex
              /\ hlog'.res = "true" =>
                    /\ internal_mutex[mx] = NoThread
                    /\ internal_mutex' = [internal_mutex EXCEPT ![mx] = t]
                    /\ this_thread_hierarchy_value' =
                          [this_thread_hierarchy_value EXCEPT ![t] = hierarchy_value[mx]]
                    /\ previous_hierarchy_value' =
                          [previous_hierarchy_value EXCEPT
                              ![mx] = this_thread_hierarchy_value[t]]]_vars

\* a thread that owns high_level_mutex got false from try_lock() on
\* low_level_mutex, owned by another thread, and kept the level of
\* high_level_mutex; the level saved in low_level_mutex is that of its owner
C19_Witness ==
    \E t, u \in HThreads :
        /\ t # u
        /\ held[t] = <<"high_level_mutex">>
        /\ internal_mutex["low_level_mutex"] = u
        /\ hlog = [t |-> t, op |-> "try_lock", mx |-> "low_level_mutex",
                   res |-> "false"]
        /\ this_thread_hierarchy_value[t] = hierarchy_value["high_level_mutex"]
        /\ previous_hierarchy_value["low_level_mutex"] = ULONG_MAX

\* C20: a refused lock() leaves no trace.  A lock() by a thread whose level
\* is at or below the level of the instance, be it another instance of the
\* same level or the instance the thread owns, throws std::logic_error and
\* does not reach internal_mutex.lock(): no thread is ever blocked on such an
\* instance, and the owner of every internal_mutex, the level of every thread
\* and every saved level are after the call what they were before it.
C20_FailFast ==
    /\ [] (\A t \in HThreads :
              hpc[t] = "locking" =>
                  this_thread_hierarchy_value[t] > hierarchy_value[hmx[t]])
    /\ [][(/\ hlog'.op = "lock"
           /\ this_thread_hierarchy_value[hlog'.t] <= hierarchy_value[hlog'.mx]) =>
              /\ hlog'.res = "logic_error"
              /\ hpc' = hpc /\ hmx' = hmx
              /\ internal_mutex' = internal_mutex
              /\ this_thread_hierarchy_value' = this_thread_hierarchy_value
              /\ previous_hierarchy_value' = previous_hierarchy_value]_vars

\* a thread that owns low_level_mutex was refused same_level_mutex, of the
\* same level and owned by another thread, and is not blocked
C20_Witness ==
    \E t, u \in HThreads :
        /\ t # u
        /\ held[t] = <<"low_level_mutex">>
        /\ held[u] = <<"same_level_mutex">>
        /\ hlog = [t |-> t, op |-> "lock", mx |-> "same_level_mutex",
                   res |-> "logic_error"]
        /\ hpc[t] = "idle"
        /\ this_thread_hierarchy_value[t] = hierarchy_value["low_level_mutex"]

\* the instances whose internal_mutex thread t owns
OwnedBy(t) == {mx \in HMutexes : internal_mutex[mx] = t}

\* the lowest of a set of levels, ULONG_MAX for none
MinLevel(levels) ==
    IF levels = {} THEN ULONG_MAX
    ELSE CHOOSE l \in levels : \A k \in levels : l <= k

\* C21: level bookkeeping.  Whatever lock(), try_lock() and unlock() calls the
\* threads have made on instances they own or ask for, the level of each
\* thread is the lowest level among the instances it owns, ULONG_MAX when it
\* owns none, and the levels of the instances it owns are strictly decreasing
\* in the order it acquired them.
C21_LevelBookkeeping ==
    \A t \in HThreads :
        /\ Range(held[t]) = OwnedBy(t)
        /\ this_thread_hierarchy_value[t] =
              MinLevel({hierarchy_value[mx] : mx \in OwnedBy(t)})
        /\ \A i, j \in 1..Len(held[t]) :
              i < j => hierarchy_value[held[t][i]] > hierarchy_value[held[t][j]]

\* a thread that had acquired two instances has given back the second and
\* is at the level of the first again, while another thread owns a third
C21_Witness ==
    \E t, u \in HThreads :
        /\ t # u
        /\ hlog = [t |-> t, op |-> "unlock", mx |-> "other_mutex", res |-> "ok"]
        /\ held[t] = <<"high_level_mutex">>
        /\ this_thread_hierarchy_value[t] = hierarchy_value["high_level_mutex"]
        /\ held[u] = <<"low_level_mutex">>

\* C27: release only by the holder.  An unlock() that does not throw is a
\* call by the thread that owns the instance; a call by any other thread,
\* such as one that owns another instance of the same level, leaves the owner
\* of the instance and the level of the caller as they were.
C27_ReleaseOnlyByHolder ==
    [][hlog'.op = "unlock" =>
          \/ internal_mutex[hlog'.mx] = hlog'.t
          \/ /\ hlog'.res = "logic_error"
             /\ internal_mutex' = internal_mutex
             /\ this_thread_hierarchy_value' = this_thread_hierarchy_value]_vars

(* ------------------------ wait_for and get: claims --------------------- *)
\* what a future made ready by callable fn holds
ResultOf(fn) ==
    IF fn.throws THEN [val |-> 0, err |-> fn.err] ELSE [val |-> fn.val, err |-> "none"]

\* C11: timed wait.  A wait_for that returns while the state is Pending
\* returns timeout, and only once its timeout has elapsed (on a deferred call
\* it returns deferred); the shared state and the task are after it what they
\* were before.  The task can still complete afterwards: every wait_for
\* returns, a get() called later returns as well, and what it returns is the
\* value some_task returned or the exception it threw.
C11_TimedWait ==
    /\ [][(tw_pc = "wait_for" /\ tw_pc' # "wait_for" /\ f_state.state = "Pending") =>
             /\ wf_status' = IF f_launch = "async" THEN "timeout" ELSE "deferred"
             /\ f_launch = "async" => wf_expired
             /\ tw_pc' = "idle"
             /\ f_state' = f_state /\ some_task' = some_task
             /\ f_launch' = f_launch /\ got' = got]_vars
    /\ [] (got # NoResult => got = ResultOf(some_task) /\ got = FutureGet(f_state))
    /\ []<>(tw_pc # "wait_for")
    /\ []<>(tw_pc # "in_get")

\* two wait_for calls returned timeout, the task completed after them, and
\* a later get() returned its value
C11_Witness ==
    /\ timeouts = 2
    /\ f_launch = "async"
    /\ ~some_task.throws
    /\ got = [val |-> some_task.val, err |-> "none"]

\* C17: poll, a wait_for without timeout followed by get() when it reports
\* ready.  It never blocks: the wait_for can return in every state, and the
\* get() after it finds a result.  It leaves the shared state as it is.  It
\* returns nothing exactly when the state is Pending, and otherwise what is
\* stored, which is what get() returns in that state.
C17_Poll ==
    /\ [] ((tw_pc = "wait_for" /\ wf_d = 0) => ENABLED WaitForReturn)
    /\ [] (tw_pc = "get" => f_state.state # "Pending")
    /\ [][(tw_pc = "wait_for" /\ wf_d = 0 /\ tw_pc' # "wait_for") =>
             /\ f_state' = f_state
             /\ tw_pc' = "idle" <=> f_state.state = "Pending"
             /\ tw_pc' = "get" <=> f_state.state # "Pending"]_vars
    /\ [][(tw_pc \in {"get", "in_get"} /\ tw_pc' = "done") =>
             (f_state' = f_state /\ got' = FutureGet(f_state))]_vars

\* a poll returned nothing while the state was Pending; a second one found
\* the state failed and returned the stored error
C17_Witness ==
    /\ timeouts = 1
    /\ wf_count = 2
    /\ wf_d = 0
    /\ wf_status = "ready"
    /\ got = [val |-> 0, err |-> "DivisionByZero"]

(* ------------------ reader_thread / writer_thread: claims -------------- *)
\* C14: publish-flag visibility.  A reader_thread that has left its loop,
\* having read true from data_ready, sees the element writer_thread pushed
\* before it stored true: it never reads data[0] before 42 is there, and what
\* it prints is 42, however the steps of the threads interleave.
C14_Visibility ==
    /\ \A r \in Readers : rd_pc[r] \in {"read", "done"} => rd_data[r] = <<42>>
    /\ \A r \in Readers : answer[r] \in {NoAnswer, Printed(42)}
    /\ data_ready => data = <<42>>

\* writer_thread has finished; one reader_thread has read true and printed
\* 42, another has read true and is about to read data[0]
C14_Witness ==
    \E r1, r2 \in Readers :
        /\ r1 # r2
        /\ answer[r1] = Printed(42)
        /\ rd_pc[r2] = "read"
        /\ wr_pc = "done"

\* C16: the flag is one-shot.  No step takes data_ready from true back to
\* false; once a load has returned true, every later load, by whichever
\* reader_thread, returns true; and a load never blocks: a reader_thread at
\* its load can always take it.
C16_OneShot ==
    /\ [][data_ready => data_ready']_vars
    /\ [][\A r \in Readers :
             (sawTrue /\ rd_pc[r] = "load" /\ rd_pc'[r] # "load") => rd_pc'[r] = "read"]_vars
    /\ [] (\A r \in Readers : rd_pc[r] = "load" => ENABLED ReaderLoad(r))

\* every reader_thread has read true from data_ready, one after the other
C16_Witness ==
    /\ sawTrue
    /\ data_ready
    /\ \A r \in Readers : rd_pc[r] \in {"read", "done"}
    /\ \E r \in Readers : rd_pc[r] = "done"

(* --------------- write_x_then_y / read_y_then_x: claims ---------------- *)
\* C26: the fence examples.  In the program with the atomic x and in the
\* program with the plain x, read_y_then_x, which reads x only after a load
\* of y has returned true and after its acquire fence, reads true from x, by
\* a read that is no data race, and increments z; so z is not 0 once both
\* threads have been joined, and the assertion never fails.
C26_FenceExamples ==
    /\ x_read \in {"unread", "true"}
    /\ fpc["read_y_then_x"] # "crashed"
    /\ main_pc \in {"assert", "done"} => z # 0
    /\ assert_result # "failed"

\* the program with the plain bool x has run to its end: the reader read
\* true from x after the writer's store to y, and the assertion passed
C26_Witness ==
    /\ x_atomic = "plain"
    /\ main_pc = "done"
    /\ x_read = "true" /\ z = 1
    /\ assert_result = "passed"

(* ------------------------ spinlock_mutex: claims ----------------------- *)
\* the threads between a return from lock() and the matching unlock()
SpinHolders == {t \in SpinThreads : spc[t] = "held"}

\* C28: spinlock_mutex mutual exclusion.  At most one thread at a time is
\* between a return from lock() and its unlock(); lock() returns only from a
\* test_and_set that found the flag clear, and sets it; unlock() leaves the
\* flag clear, and whenever the flag is clear a thread spinning in lock()
\* can acquire it with its next test_and_set.
C28_MutualExclusion ==
    /\ [] (Cardinality(SpinHolders) <= 1)
    /\ [] (flag <=> SpinHolders # {})
    /\ [][\A t \in SpinThreads :
             (spc[t] = "lock" /\ spc'[t] = "held")
                => (~flag /\ flag' /\ tas'[t] = "false")]_vars
    /\ [][\A t \in SpinThreads :
             (spc[t] = "held" /\ spc'[t] = "out") => ~flag']_vars
    /\ [] (\A t \in SpinThreads :
             (~flag /\ spc[t] = "lock")
                => ENABLED (SpinTestAndSet(t) /\ spc'[t] = "held"))

\* one thread is between lock() and unlock() while the other threads spin in
\* lock(), their last test_and_set having found the flag set
C28_Witness ==
    /\ Cardinality(SpinHolders) = 1
    /\ \A t \in SpinThreads \ SpinHolders : spc[t] = "lock" /\ tas[t] = "true"

(* ----------------------- threadsafe_stack: claims ---------------------- *)
\* the thread is inside a pop, between its test of data.empty() and its
\* return
InPop(t) == stk_pc[t] \in {"pop_check", "pop_ref_check", "pop_top", "pop_ref_top",
                           "pop_pop", "pop_ref_pop"}
PopTaken(t) == stk_pc[t] \in {"pop_pop", "pop_ref_pop"}

\* C29: threadsafe_stack has no interface race.  A pop that finds the stack
\* empty throws empty_stack and leaves the stack unchanged, and a pop throws
\* only then; otherwise the pop returns the element that is the top when it
\* is removed and removes exactly that element, and from the pop's test of
\* emptiness to its return no other thread changes the stack; so no value is
\* returned by two pops and every value returned was pushed.
C29_NoInterfaceRace ==
    /\ [][\A t \in StackThreads :
             (stk_pc[t] \in {"pop_check", "pop_ref_check"} /\ stk_pc'[t] # stk_pc[t])
                => IF stack_data = <<>>
                      THEN stk_res'[t].threw /\ stack_data' = stack_data
                      ELSE stk_res'[t] = stk_res[t]]_vars
    /\ [][\A t \in StackThreads :
             (PopTaken(t) /\ stk_pc'[t] = "idle")
                => /\ stack_data # <<>>
                   /\ stk_res'[t].val = stack_data[Len(stack_data)]
                   /\ ~stk_res'[t].threw
                   /\ stack_data' = SubSeq(stack_data, 1, Len(stack_data) - 1)]_vars
    /\ [][\A t \in StackThreads :
             (InPop(t) /\ stk_pc'[t] = stk_pc[t]) => stack_data' = stack_data]_vars
    /\ [] (\A i, j \in 1..Len(stackPopLog) : stackPopLog[i] = stackPopLog[j] => i = j)
    /\ [] (\A i \in 1..Len(stackPopLog) :
              \E j \in 1..Len(stackPushLog) : stackPopLog[i] = stackPushLog[j])

\* the race of the std::stack interface is on: a thread whose empty() has
\* returned false is calling pop() while another thread is inside pop(),
\* about to remove the only element
C29_Witness ==
    \E t1, t2 \in StackThreads :
       /\ stk_pc[t1] = "pop_pop" /\ Len(stack_data) = 1
       /\ stk_pc[t2] = "pop_lock"
       /\ stk_res[t2].op = "empty" /\ ~stk_res[t2].empty

(* -------------------------- swap(X&, X&): claims ----------------------- *)
InSwap(t) == swpc[t] # "idle"
SwapHolds(t) == {o \in XObjects : x_m[o] = t}

\* what C30 says of the exchange, of the return and of swap(a, a): the
\* details change only by the exchange of a thread that owns lhs.m and rhs.m,
\* a thread outside swap owns no mutex, and a call with lhs and rhs the same
\* object has locked nothing
SwapSafety ==
    /\ [][some_detail' # some_detail
             => \E t \in SwapThreads :
                   /\ swpc[t] = "exchange" /\ swpc'[t] = "unlock_one"
                   /\ SwapHolds(t) = {lhs[t], rhs[t]}]_vars
    /\ [] (\A t \in SwapThreads : swpc[t] = "exchange" => SwapHolds(t) = {lhs[t], rhs[t]})
    /\ [] (\A t \in SwapThreads : ~InSwap(t) => SwapHolds(t) = {})
    /\ [] (\A t \in SwapThreads : lhs[t] = rhs[t] => sw_locked[t] = {} /\ SwapHolds(t) = {})

\* the threads inside swap
Swapping == {t \in SwapThreads : InSwap(t)}

=============================================================================
